---- MODULE Spec2Model ----
(***************************************************************************)
(* Coinbot: the Bitvavo gateway (backend/clients.py), the candle series    *)
(* it returns (backend/candles.py), the indicators computed on a series    *)
(* (backend/indicators.py), the MACD and RSI signal evaluators             *)
(* (backend/signals.py), the stateless trading loop (backend/macd_bot.py)  *)
(* and the workers of the UI that poll the gateway                         *)
(* (frontend/controller.py).                                               *)
(*                                                                         *)
(* Numbers.  Python floats are modelled by exact integers:                 *)
(*   - money is counted in units of 1/39 EUR, so that the 97.5% reserve    *)
(*     (39/40) of a balance is exact: tradeable funds are kept in          *)
(*     thousandths of a unit (1/39000 EUR);                                *)
(*   - coin amounts, prices and histogram values are small integers.       *)
(* The exchange (python_bitvavo_api) is the environment: every remote call *)
(* costs one unit of the rate limit, and the remaining limit is read       *)
(* locally (getRemainingLimit issues no request).                          *)
(***************************************************************************)
EXTENDS Integers, Sequences, FiniteSets, TLC

VARIABLES
    \* ---- the exchange (environment)
    quota,              \* remaining API calls in the current rate window
    markets,            \* base symbols currently listed (markets({}))
    available,          \* [symbol -> coins available]
    inOrder,            \* [symbol -> coins reserved in open orders]
    funds,              \* available EUR balance, in units of 1/39 EUR
    series,             \* [symbol -> [bars, hist]]: the candles returned for the
                        \* symbol: their count and the trailing MACD histogram
    ticker24,           \* [symbol -> [ok, open, last, volumeQuote]]
    rejects,            \* symbols whose market orders the exchange rejects
    server_time,        \* the exchange's clock, in ms (time()["time"])
    candle_opens,       \* open-times (ms) of the 1m candles of the BTC-EUR market
    \* ---- BitvavoClient
    available_symbols,  \* self.available_symbols, the snapshot taken by __init__
    \* ---- a caller of the gateway (one operation at a time)
    lastOp,             \* the last gateway operation: name, outcome and its events
    \* ---- macd_stateless_trading_bot
    pc,                 \* position of the loop
    it,                 \* what the current iteration has done so far
    clock,              \* the bot's wall clock and the cooldown of its last iteration
    ohlcv,              \* an OHLCVCandles under construction or in use
    rsi_column,         \* the rsi column of the series handed to rsi_signal
    workers,            \* the workers of the UI's thread pool: their steps and position
    \* ---- macd_signal applied to a histogram
    macd_hist,          \* the histogram handed to macd_signal
    verdict             \* its outcome

vars == <<quota, markets, available, inOrder, funds, series, ticker24, rejects,
          server_time, candle_opens,
          available_symbols, lastOp, pc, it, macd_hist, verdict,
          clock,
          ohlcv,
          rsi_column,
          workers>>

exchangeVars == <<markets, available, inOrder, funds, series, ticker24, rejects,
                 server_time, candle_opens>>

-----------------------------------------------------------------------------
(* Symbols and bounds *)

Symbols == {"ADA", "BTC", "ETH", "SOL", "XRP"}

\* the market that is listed after the client took its snapshot
NewMarket == "SOL"

\* a name no market has
UnknownSymbol == "ZZZ"

\* lexicographic order of the names used (list.sort() on strings)
SymbolOrder == <<"ADA", "BTC", "ETH", "EUR", "SOL", "XRP", "ZZZ">>

\* the rate limit right after the window rolls over is QuotaThreshold + QuotaHeadroom
QuotaHeadroom == 30

\* a run starts with the full limit or with one from QuotaThreshold - QuotaBelow
\* to QuotaThreshold + QuotaNear
QuotaBelow == 2

QuotaNear == 4

QuotaThreshold == 100

NoVal == "-"

InitialQuotas ==
    ((QuotaThreshold - QuotaBelow)..(QuotaThreshold + QuotaNear))
        \cup {QuotaThreshold + QuotaHeadroom}

-----------------------------------------------------------------------------
(* Sequence helpers *)

RECURSIVE SeqSum(_)
SeqSum(s) == IF s = <<>> THEN 0 ELSE Head(s) + SeqSum(Tail(s))

Range(s) == {s[i] : i \in DOMAIN s}

Min(a, b) == IF a <= b THEN a ELSE b

\* list(set(xs)); sort()
sorted_unique(S) == SelectSeq(SymbolOrder, LAMBDA s : s \in S)

-----------------------------------------------------------------------------
(* The exchange client self._bitvavo: remote calls and the rate limit.      *)
(* A context c = [q, ev, orders, available_symbols] threads the remaining   *)
(* limit, the events of the running operation (quota reads and remote       *)
(* calls, in order), the orders placed and the client's snapshot of the     *)
(* available symbols.                                                       *)

Ctx(q) ==
    [q |-> q, ev |-> <<>>, orders |-> <<>>, available_symbols |-> available_symbols]

\* self._bitvavo.getRemainingLimit(): a local read
get_remaining_limit(c) ==
    [c EXCEPT !.ev = Append(@, [k |-> "read", api |-> "getRemainingLimit", q |-> c.q])]

\* one request to the exchange; the event keeps the limit it was issued at
Remote(c, api) ==
    [c EXCEPT !.q = @ - 1,
              !.ev = Append(@, [k |-> "call", api |-> api, q |-> c.q])]

\* placeOrder: a remote call that also records the order
PlaceOrder(c, side, symbol, amount) ==
    [Remote(c, "placeOrder") EXCEPT
        !.orders = Append(@, [side |-> side, symbol |-> symbol, amount |-> amount])]

Ok(c, v) == [err |-> "none", val |-> v, c |-> c]

Raise(c, e) == [err |-> e, val |-> NoVal, c |-> c]

QuotaError == "CoinbotExceededNumAPICallsError"

ValueError == "CoinbotUnexpectedValueError"

\* the balance({}) response: the EUR entry and one entry per asset held
BalanceOrder == <<"ADA", "BTC", "ETH", "EUR", "SOL", "XRP">>

balance ==
    LET held == SelectSeq(BalanceOrder,
                    LAMBDA s : s = "EUR" \/ available[s] > 0 \/ inOrder[s] > 0)
    IN [i \in DOMAIN held |->
            IF held[i] = "EUR"
            THEN [symbol |-> "EUR", available |-> funds, inOrder |-> 0]
            ELSE [symbol |-> held[i], available |-> available[held[i]],
                  inOrder |-> inOrder[held[i]]]]

\* ordersOpen({}): one open order per symbol with a reserved amount
ordersOpen ==
    LET held == SelectSeq(BalanceOrder, LAMBDA s : s # "EUR" /\ inOrder[s] > 0)
    IN [i \in DOMAIN held |-> [market |-> held[i], amount |-> inOrder[held[i]]]]

\* tickerPrice: the last price, in money units per coin
price(s) == IF ticker24[s].ok THEN ticker24[s].last ELSE 0

\* tickerPrice({}): the markets that have a price
ticker_book == SelectSeq(SymbolOrder, LAMBDA s : s \in markets /\ ticker24[s].ok)

\* money units (1/39 EUR) per EUR
UnitsPerEuro == 39

\* a whole minute of the exchange's clock, 350 hours after its origin
ClockBase == 21000 * 60 * 1000

\* does the exchange answer order o with an error, holding av coins and fu units?
OrderRejected(o, av, fu) ==
    \/ o.symbol \notin markets
    \/ o.symbol \in rejects
    \/ o.amount <= 0
    \/ price(o.symbol) <= 0
    \/ o.side = "sell" /\ o.amount > av[o.symbol]
    \/ o.side = "buy" /\ o.amount * UnitsPerEuro > fu

\* the exchange fills the orders one after the other: a sell turns coins into
\* money at the last price, a buy turns amountQuote EUR into coins
RECURSIVE FillOrders(_, _, _, _)
FillOrders(orders, av, fu, responses) ==
    IF orders = <<>> THEN [available |-> av, funds |-> fu, responses |-> responses]
    ELSE LET o == Head(orders)
             s == o.symbol
         IN IF OrderRejected(o, av, fu)
            THEN FillOrders(Tail(orders), av, fu, Append(responses, "error"))
            ELSE IF o.side = "sell"
            THEN FillOrders(Tail(orders), [av EXCEPT ![s] = @ - o.amount],
                            fu + o.amount * price(s), Append(responses, "filled"))
            ELSE FillOrders(Tail(orders),
                            [av EXCEPT ![s] = @ + (o.amount * UnitsPerEuro) \div price(s)],
                            fu - o.amount * UnitsPerEuro, Append(responses, "filled"))

-----------------------------------------------------------------------------
(* coinbot/__init__.py *)

TIME_RESOLUTIONS ==
    [r \in {"1m", "5m", "15m", "30m", "1h", "2h", "4h", "6h", "8h", "12h", "1d"} |->
        CASE r = "1m" -> 60
          [] r = "5m" -> 5 * 60
          [] r = "15m" -> 15 * 60
          [] r = "30m" -> 30 * 60
          [] r = "1h" -> 60 * 60
          [] r = "2h" -> 2 * 60 * 60
          [] r = "4h" -> 4 * 60 * 60
          [] r = "6h" -> 6 * 60 * 60
          [] r = "8h" -> 8 * 60 * 60
          [] r = "12h" -> 12 * 60 * 60
          [] r = "1d" -> 24 * 60 * 60]

TIME_SPANS ==
    [t \in {"1h", "2h", "4h", "8h", "12h", "1d", "1w", "2w", "1m", "2m", "4m", "6m",
            "1y", "2y", "5y"} |->
        CASE t = "1h" -> 60 * 60
          [] t = "2h" -> 2 * 60 * 60
          [] t = "4h" -> 4 * 60 * 60
          [] t = "8h" -> 8 * 60 * 60
          [] t = "12h" -> 12 * 60 * 60
          [] t = "1d" -> 24 * 60 * 60
          [] t = "1w" -> 7 * 24 * 60 * 60
          [] t = "2w" -> 14 * 24 * 60 * 60
          [] t = "1m" -> 30 * 24 * 60 * 60
          [] t = "2m" -> 61 * 24 * 60 * 60
          [] t = "4m" -> 122 * 24 * 60 * 60
          [] t = "6m" -> 183 * 24 * 60 * 60
          [] t = "1y" -> 365 * 24 * 60 * 60
          [] t = "2y" -> 2 * 365 * 24 * 60 * 60
          [] t = "5y" -> 5 * 365 * 24 * 60 * 60]

\* math.ceil(a / b) for positive integers
CeilDiv(a, b) == (a + b - 1) \div b

-----------------------------------------------------------------------------
(* backend/clients.py: the limit_api_calls decorator *)

\* args[0].get_remaining_limit() < 100, too lenient by one
below_limit_off_by_one(remaining) == remaining < QuotaThreshold - 1

\* args[0].get_remaining_limit() < 100
below_limit(remaining) == remaining < QuotaThreshold

\* check_remaining_api_calls_wrapper, up to the call of func
limit_api_calls(c) ==
    LET c1 == get_remaining_limit(c)
    IN IF below_limit(c1.q) THEN Raise(c1, QuotaError) ELSE Ok(c1, NoVal)

-----------------------------------------------------------------------------
(* backend/clients.py: BitvavoClient.  Every operation takes the context c  *)
(* last and returns [err, val, c]; an error raised by a nested operation    *)
(* propagates.                                                              *)

\* the response of placeOrder is read by the caller only for "error"; it is
\* decided by the exchange when the order is filled (FillOrders)
buy(symbol, amount_in_euro, c) ==
    LET g == limit_api_calls(c)
    IN IF g.err # "none" THEN g
       ELSE Ok(PlaceOrder(g.c, "buy", symbol, amount_in_euro), "response")

sell(symbol, amount_in_coins, c) ==
    LET g == limit_api_calls(c)
    IN IF g.err # "none" THEN g
       ELSE Ok(PlaceOrder(g.c, "sell", symbol, amount_in_coins), "response")

get_available_symbols(c) ==
    LET g == limit_api_calls(c)
    IN IF g.err # "none" THEN g
       ELSE Ok(Remote(g.c, "markets"), sorted_unique(markets \cup {"EUR"}))

\* depositHistory({}) and withdrawalHistory({}) of the account
depositHistory == <<[amount |-> 400, fee |-> 10]>>

withdrawalHistory == <<[amount |-> 100, fee |-> 5]>>

get_total_deposited(c) ==
    LET g == limit_api_calls(c)
    IN IF g.err # "none" THEN g
       ELSE Ok(Remote(g.c, "depositHistory"),
               SeqSum([i \in DOMAIN depositHistory |->
                          depositHistory[i].amount - depositHistory[i].fee]))

get_total_withdrawn(c) ==
    LET g == limit_api_calls(c)
    IN IF g.err # "none" THEN g
       ELSE Ok(Remote(g.c, "withdrawalHistory"),
               SeqSum([i \in DOMAIN withdrawalHistory |->
                          withdrawalHistory[i].amount - withdrawalHistory[i].fee]))

get_owned_symbols(c) ==
    LET g == limit_api_calls(c)
        owned == SelectSeq(balance,
                     LAMBDA b : b.symbol # "EUR" /\ (b.available > 0 \/ b.inOrder > 0))
    IN IF g.err # "none" THEN g
       ELSE Ok(Remote(g.c, "balance"), [i \in DOMAIN owned |-> owned[i].symbol])

get_open_positions(c) ==
    LET g == limit_api_calls(c)
        open == SelectSeq(balance, LAMBDA b : b.symbol # "EUR" /\ b.available > 0)
    IN IF g.err # "none" THEN g
       ELSE Ok(Remote(g.c, "balance"),
               [i \in DOMAIN open |-> <<open[i].symbol, open[i].available>>])

get_open_orders(c) ==
    LET g == limit_api_calls(c)
        open == SelectSeq(balance, LAMBDA b : b.symbol # "EUR" /\ b.inOrder > 0)
    IN IF g.err # "none" THEN g
       ELSE Ok(Remote(g.c, "balance"),
               [i \in DOMAIN open |-> <<open[i].symbol, open[i].available>>])

\* the price of the EUR is asked of the exchange like any other
get_symbol_price_of_ticker(symbol, c) ==
    LET g == limit_api_calls(c)
    IN IF g.err # "none" THEN g
       ELSE IF symbol \notin Range(g.c.available_symbols) THEN Raise(g.c, ValueError)
       ELSE Ok(Remote(g.c, "tickerPrice"), IF symbol = "EUR" THEN UnitsPerEuro ELSE price(symbol))

\* prices are in money units per coin: the 1.0 of the EUR is UnitsPerEuro
get_symbol_price(symbol, c) ==
    LET g == limit_api_calls(c)
    IN IF g.err # "none" THEN g
       ELSE IF symbol \notin Range(g.c.available_symbols) THEN Raise(g.c, ValueError)
       ELSE IF symbol = "EUR" THEN Ok(g.c, UnitsPerEuro)
       ELSE Ok(Remote(g.c, "tickerPrice"), price(symbol))

\* the loop of get_symbols_prices over the symbols asked for
RECURSIVE symbols_prices_loop(_, _, _)
symbols_prices_loop(symbols, prices, c) ==
    IF symbols = <<>> THEN Ok(c, prices)
    ELSE LET symbol == Head(symbols)
         IN IF symbol = "EUR"
            THEN symbols_prices_loop(Tail(symbols), Append(prices, UnitsPerEuro), c)
            ELSE IF symbol \notin Range(c.available_symbols) THEN Raise(c, ValueError)
            ELSE IF symbol \in Range(ticker_book)
            THEN symbols_prices_loop(Tail(symbols), Append(prices, price(symbol)), c)
            ELSE symbols_prices_loop(Tail(symbols), prices, c)

get_symbols_prices(symbols, c) ==
    LET g == limit_api_calls(c)
    IN IF g.err # "none" THEN g
       ELSE symbols_prices_loop(symbols, <<>>, Remote(g.c, "tickerPrice"))

\* the symbol is validated before the remaining limit is looked at
get_symbol_owned_amount_validating_first(symbol, c) ==
    LET g == limit_api_calls(c)
        found == SelectSeq(balance, LAMBDA b : b.symbol = symbol)
    IN IF symbol \notin Range(c.available_symbols) THEN Raise(c, ValueError)
       ELSE IF g.err # "none" THEN g
       ELSE Ok(Remote(g.c, "balance"),
               IF found # <<>> THEN found[1].available ELSE 0)

get_symbol_owned_amount(symbol, c) ==
    LET g == limit_api_calls(c)
        found == SelectSeq(balance, LAMBDA b : b.symbol = symbol)
    IN IF g.err # "none" THEN g
       ELSE IF symbol \notin Range(g.c.available_symbols) THEN Raise(g.c, ValueError)
       ELSE Ok(Remote(g.c, "balance"),
               IF found # <<>> THEN found[1].available ELSE 0)

get_available_funds(c) ==
    LET g == limit_api_calls(c)
    IN IF g.err # "none" THEN g ELSE get_symbol_owned_amount("EUR", g.c)

\* the first loop of get_total_wallet_balance, over the balance entries
RECURSIVE wallet_funds_loop(_, _, _)
wallet_funds_loop(entries, total_balance, c) ==
    IF entries = <<>> THEN Ok(c, total_balance)
    ELSE LET b == Head(entries)
             p == get_symbol_price(b.symbol, c)
         IN IF b.symbol = "EUR"
            THEN wallet_funds_loop(Tail(entries), total_balance + b.available, c)
            ELSE IF p.err # "none" THEN p
            ELSE wallet_funds_loop(Tail(entries), total_balance + b.available * p.val, p.c)

\* its second loop, over the open orders
RECURSIVE wallet_orders_loop(_, _, _)
wallet_orders_loop(orders, total_balance, c) ==
    IF orders = <<>> THEN Ok(c, total_balance)
    ELSE LET order == Head(orders)
             p == get_symbol_price(order.market, c)
         IN IF p.err # "none" THEN p
            ELSE wallet_orders_loop(Tail(orders), total_balance + p.val * order.amount, p.c)

get_total_wallet_balance(c) ==
    LET g == limit_api_calls(c)
        f == wallet_funds_loop(balance, 0, Remote(g.c, "balance"))
    IN IF g.err # "none" THEN g
       ELSE IF f.err # "none" THEN f
       ELSE wallet_orders_loop(ordersOpen, f.val, Remote(f.c, "ordersOpen"))

get_total_gains(c) ==
    LET g == limit_api_calls(c)
        w == get_total_wallet_balance(g.c)
        x == get_total_withdrawn(w.c)
        d == get_total_deposited(x.c)
    IN IF g.err # "none" THEN g
       ELSE IF w.err # "none" THEN w
       ELSE IF x.err # "none" THEN x
       ELSE IF d.err # "none" THEN d
       ELSE Ok(d.c, w.val + x.val - d.val)

\* (last_price - open_price) / open_price * 100; the tickers used have open = 100
get_symbol_24h_percentual_change(symbol, c) ==
    LET g == limit_api_calls(c)
        t == ticker24[symbol]
    IN IF g.err # "none" THEN g
       ELSE IF symbol \notin Range(g.c.available_symbols) THEN Raise(g.c, ValueError)
       ELSE IF symbol = "EUR" THEN Ok(g.c, 0)
       ELSE Ok(Remote(g.c, "ticker24h"),
               IF t.ok THEN ((t.last - t.open) * 100) \div t.open ELSE 0)

get_symbol_24h_volume(symbol, c) ==
    LET g == limit_api_calls(c)
        t == ticker24[symbol]
    IN IF g.err # "none" THEN g
       ELSE IF symbol \notin Range(g.c.available_symbols) THEN Raise(g.c, ValueError)
       ELSE IF symbol = "EUR" THEN Ok(g.c, 0)
       ELSE Ok(Remote(g.c, "ticker24h"), IF t.ok THEN t.volumeQuote ELSE 0)

\* the requests of get_candles, one self._bitvavo.candles call each
RECURSIVE candles_requests(_, _)
candles_requests(num_requests, c) ==
    IF num_requests = 0 THEN c
    ELSE candles_requests(num_requests - 1, Remote(c, "candles"))

\* bars per candles request
CandlesPerRequest == 1000

\* the exchange's time is read before the input is checked
get_candles_time_first(symbol, time_resolution, time_span, c) ==
    LET g == limit_api_calls(c)
        num_candles == CeilDiv(TIME_SPANS[time_span], TIME_RESOLUTIONS[time_resolution])
        num_requests == CeilDiv(num_candles, CandlesPerRequest)
    IN IF g.err # "none" THEN g
       ELSE IF time_resolution \notin DOMAIN TIME_RESOLUTIONS
       THEN Raise(Remote(g.c, "time"), ValueError)
       ELSE IF time_span \notin DOMAIN TIME_SPANS
       THEN Raise(Remote(g.c, "time"), ValueError)
       ELSE IF symbol \notin Range(g.c.available_symbols)
       THEN Raise(Remote(g.c, "time"), ValueError)
       ELSE Ok(candles_requests(num_requests, Remote(g.c, "time")),
               IF symbol \in Symbols THEN series[symbol] ELSE [bars |-> 0, hist |-> <<>>])

get_candles(symbol, time_resolution, time_span, c) ==
    LET g == limit_api_calls(c)
        num_candles == CeilDiv(TIME_SPANS[time_span], TIME_RESOLUTIONS[time_resolution])
        num_requests == CeilDiv(num_candles, CandlesPerRequest)
    IN IF g.err # "none" THEN g
       ELSE IF time_resolution \notin DOMAIN TIME_RESOLUTIONS THEN Raise(g.c, ValueError)
       ELSE IF time_span \notin DOMAIN TIME_SPANS THEN Raise(g.c, ValueError)
       ELSE IF symbol \notin Range(g.c.available_symbols) THEN Raise(g.c, ValueError)
       ELSE Ok(candles_requests(num_requests, Remote(g.c, "time")),
               IF symbol \in Symbols THEN series[symbol] ELSE [bars |-> 0, hist |-> <<>>])

\* the loop of panic over the owned symbols
RECURSIVE panic_loop(_, _)
panic_loop(owned, c) ==
    IF owned = <<>> THEN Ok(c, NoVal)
    ELSE LET a == get_symbol_owned_amount(Head(owned), c)
             r == sell(Head(owned), a.val, a.c)
         IN IF a.err # "none" THEN a
            ELSE IF r.err # "none" THEN r
            ELSE panic_loop(Tail(owned), r.c)

panic(c) ==
    LET g == limit_api_calls(c)
        o == get_owned_symbols(g.c)
    IN IF g.err # "none" THEN g
       ELSE IF o.err # "none" THEN o
       ELSE panic_loop(o.val, o.c)

-----------------------------------------------------------------------------
(* Values the other components keep while one component runs *)

IdleOp == [name |-> "none", args |-> <<>>, q0 |-> 0, err |-> "none", val |-> NoVal,
           ev |-> <<>>, orders |-> <<>>, responses |-> <<>>]

\* analyse_existing_positions has not run in this iteration
NoReview == [done |-> FALSE, err |-> "none", owned |-> <<>>, reviewed |-> <<>>,
             orders |-> <<>>, responses |-> <<>>]

\* open_new_positions has not run in this iteration
NoOpen == [done |-> FALSE, err |-> "none", num_open_pos |-> 0, tradeable_funds |-> 0,
           scanned |-> FALSE, interesting_symbols |-> <<>>, selected_symbols |-> <<>>,
           funds_per_symbol |-> 0, orders |-> <<>>, responses |-> <<>>]

IdleClock == [now |-> 0, iteration_start_time |-> 0, slept |-> 0, iterations |-> 0]

\* no series is under construction
IdleSeries == [args |-> <<>>, err |-> "idle", obj |-> <<>>, df |-> <<>>]

IdleIteration == [review |-> NoReview, open |-> NoOpen]

\* macd_signal has not been applied
NoVerdict == [action |-> "unused", branch |-> "unused"]

\* macd_signal is about to be applied
PendingVerdict == [action |-> "pending", branch |-> "pending"]

\* a market with trades in the last 24 hours: open 100 and the given last price
\* (money units per coin) and volume
Ticker(last, volumeQuote) ==
    [ok |-> TRUE, open |-> 100, last |-> last, volumeQuote |-> volumeQuote]

\* a market without trades: the ticker's fields are None
NullTicker == [ok |-> FALSE, open |-> 0, last |-> 0, volumeQuote |-> 0]

\* a month of 8h candles whose histogram ends in the given values
FullSeries(hist) == [bars |-> 90, hist |-> hist]

-----------------------------------------------------------------------------
(* SpecGateway: a caller invokes the operations of one BitvavoClient, one   *)
(* at a time, in any order and with any arguments.                          *)

GwSymbols == {"ADA", "BTC", "EUR", UnknownSymbol}

\* (symbol, time_resolution, time_span) asked of get_candles: markets only (BTC, or
\* a name that is not in the snapshot); "3h" and "3m" are not supported
GwCandlesArgs ==
    {<<"BTC", "8h", "1m">>, <<"BTC", "1h", "2m">>, <<"BTC", "3h", "1m">>,
     <<"BTC", "8h", "3m">>, <<UnknownSymbol, "8h", "1m">>, <<UnknownSymbol, "3h", "3m">>}

InitGateway ==
    /\ quota \in InitialQuotas
    /\ markets = Symbols \ {NewMarket}
    /\ available = [s \in Symbols |-> IF s = "BTC" THEN 4 ELSE IF s = "ETH" THEN 3 ELSE 0]
    /\ inOrder = [s \in Symbols |-> IF s = "ETH" THEN 1 ELSE 0]
    /\ funds = 20 * UnitsPerEuro
    /\ series = [s \in Symbols |-> FullSeries(<<1, 2, 3, 4>>)]
    /\ ticker24 = [s \in Symbols |-> IF s = "ADA" THEN NullTicker
                                    ELSE Ticker(5 * UnitsPerEuro, 300000)]
    /\ rejects = {}
    /\ server_time = ClockBase
    /\ candle_opens = {}
    /\ clock = IdleClock
    /\ ohlcv = IdleSeries
    /\ rsi_column = <<>>
    /\ workers = <<>>
    /\ available_symbols = sorted_unique(markets \cup {"EUR"})
    /\ lastOp = IdleOp
    /\ pc = "unused"
    /\ it = IdleIteration
    /\ macd_hist = <<>>
    /\ verdict = NoVerdict

\* the caller's operation `name` ran with result r: the exchange has filled its
\* orders and the rate limit is what the operation left
Invoke(name, args, r) ==
    LET f == FillOrders(r.c.orders, available, funds, <<>>)
    IN /\ quota' = r.c.q
       /\ available' = f.available
       /\ funds' = f.funds
       /\ lastOp' = [name |-> name, args |-> args, q0 |-> quota, err |-> r.err,
                     val |-> r.val, ev |-> r.c.ev, orders |-> r.c.orders,
                     responses |-> f.responses]
       /\ UNCHANGED <<markets, inOrder, series, ticker24, rejects, server_time,
                      candle_opens, available_symbols, pc, it, clock, ohlcv, rsi_column, workers, macd_hist, verdict>>

GwBuy ==
    \E symbol \in {"BTC", UnknownSymbol}, amount \in {10} :
        Invoke("buy", <<symbol, amount>>, buy(symbol, amount, Ctx(quota)))

GwSell ==
    \E symbol \in {"BTC", UnknownSymbol}, amount \in {2} :
        Invoke("sell", <<symbol, amount>>, sell(symbol, amount, Ctx(quota)))

GwPanic == Invoke("panic", <<>>, panic(Ctx(quota)))

GwGetAvailableSymbols ==
    Invoke("get_available_symbols", <<>>, get_available_symbols(Ctx(quota)))

GwGetTotalDeposited ==
    Invoke("get_total_deposited", <<>>, get_total_deposited(Ctx(quota)))

GwGetTotalWithdrawn ==
    Invoke("get_total_withdrawn", <<>>, get_total_withdrawn(Ctx(quota)))

GwGetTotalGains == Invoke("get_total_gains", <<>>, get_total_gains(Ctx(quota)))

GwGetAvailableFunds ==
    Invoke("get_available_funds", <<>>, get_available_funds(Ctx(quota)))

GwGetOpenPositions ==
    Invoke("get_open_positions", <<>>, get_open_positions(Ctx(quota)))

GwGetOpenOrders == Invoke("get_open_orders", <<>>, get_open_orders(Ctx(quota)))

GwGetTotalWalletBalance ==
    Invoke("get_total_wallet_balance", <<>>, get_total_wallet_balance(Ctx(quota)))

GwGetOwnedSymbols == Invoke("get_owned_symbols", <<>>, get_owned_symbols(Ctx(quota)))

GwGetSymbolPrice ==
    \E symbol \in GwSymbols :
        Invoke("get_symbol_price", <<symbol>>, get_symbol_price(symbol, Ctx(quota)))

GwGetSymbolsPrices ==
    \E symbols \in {<<"BTC", "EUR">>, <<"EUR", "ADA", "BTC">>, <<"BTC", NewMarket>>} :
        Invoke("get_symbols_prices", <<symbols>>, get_symbols_prices(symbols, Ctx(quota)))

GwGetSymbolOwnedAmount ==
    \E symbol \in GwSymbols :
        Invoke("get_symbol_owned_amount", <<symbol>>,
               get_symbol_owned_amount(symbol, Ctx(quota)))

GwGetSymbol24hPercentualChange ==
    \E symbol \in GwSymbols :
        Invoke("get_symbol_24h_percentual_change", <<symbol>>,
               get_symbol_24h_percentual_change(symbol, Ctx(quota)))

GwGetSymbol24hVolume ==
    \E symbol \in GwSymbols :
        Invoke("get_symbol_24h_volume", <<symbol>>,
               get_symbol_24h_volume(symbol, Ctx(quota)))

GwGetCandles ==
    \E a \in GwCandlesArgs :
        Invoke("get_candles", a, get_candles(a[1], a[2], a[3], Ctx(quota)))

\* the exchange's rate window rolls over
QuotaReset ==
    /\ quota < QuotaThreshold + QuotaHeadroom
    /\ quota' = QuotaThreshold + QuotaHeadroom
    /\ UNCHANGED <<exchangeVars, available_symbols, lastOp, pc, it, clock, ohlcv, rsi_column, workers, macd_hist, verdict>>

\* the exchange lists a market the client's snapshot does not have
MarketListed ==
    /\ NewMarket \notin markets
    /\ markets' = markets \cup {NewMarket}
    /\ UNCHANGED <<quota, available, inOrder, funds, series, ticker24, rejects,
                   server_time, candle_opens,
                   available_symbols, lastOp, pc, it, clock, ohlcv, rsi_column, workers, macd_hist, verdict>>

NextGateway ==
    \/ GwBuy
    \/ GwSell
    \/ GwPanic
    \/ GwGetAvailableSymbols
    \/ GwGetTotalDeposited
    \/ GwGetTotalWithdrawn
    \/ GwGetTotalGains
    \/ GwGetAvailableFunds
    \/ GwGetOpenPositions
    \/ GwGetOpenOrders
    \/ GwGetTotalWalletBalance
    \/ GwGetOwnedSymbols
    \/ GwGetSymbolPrice
    \/ GwGetSymbolsPrices
    \/ GwGetSymbolOwnedAmount
    \/ GwGetSymbol24hPercentualChange
    \/ GwGetSymbol24hVolume
    \/ GwGetCandles
    \/ QuotaReset
    \/ MarketListed

SpecGateway == InitGateway /\ [][NextGateway]_vars

-----------------------------------------------------------------------------
(* Claims about the gateway, checked under SpecGateway *)

\* the remote calls among the events of the last operation
CallEvents == {i \in DOMAIN lastOp.ev : lastOp.ev[i].k = "call"}

\* C1: an operation invoked with a remaining limit below 100 fails with the
\* quota-exhausted error, issues no call to the exchange and places no order; invoked
\* with 100 or more it gets past the guard: it does not end with the quota error
\* unless it has issued a remote call first (a nested operation was refused later).
C1_QuotaGuard ==
    lastOp.name # "none" =>
        /\ lastOp.q0 < 100 =>
              /\ lastOp.err = QuotaError
              /\ CallEvents = {}
              /\ lastOp.orders = <<>>
        /\ lastOp.q0 >= 100 =>
              /\ lastOp.ev[1] = [k |-> "read", api |-> "getRemainingLimit", q |-> lastOp.q0]
              /\ lastOp.err = QuotaError => CallEvents # {}

\* C1 witness: panic invoked with 99 calls remaining was refused
C1_Witness ==
    /\ lastOp.name = "panic"
    /\ lastOp.q0 = 99
    /\ lastOp.err = QuotaError

\* C2: every remote call of an operation is immediately preceded by a read of the
\* remaining limit and is issued with at least 100 calls remaining.
C2_EveryCallFreshlyGuarded ==
    \A i \in CallEvents :
        /\ i > 1
        /\ lastOp.ev[i - 1].k = "read"
        /\ lastOp.ev[i].q >= 100

-----------------------------------------------------------------------------
(* backend/signals.py: macd_signal on the histogram                         *)
(*   macd_hist = [h for h in macd_df["macd_line"] - macd_df["macd_signal"]] *)
(* A condition is evaluated left to right and stops at the first false      *)
(* comparison; macd_hist[-k] raises IndexError when the list has fewer than *)
(* k values.                                                                *)

IndexError == "IndexError"

\* macd_hist[-k]
At(h, k) == h[Len(h) - k + 1]

\* the BUY condition with strict comparisons
cond_building_strict(h) ==
    IF Len(h) < 1 THEN IndexError
    ELSE IF ~(At(h, 1) > 0) THEN "False"
    ELSE IF Len(h) < 2 THEN IndexError
    ELSE IF ~(At(h, 1) > At(h, 2)) THEN "False"
    ELSE IF Len(h) < 3 THEN IndexError
    ELSE IF At(h, 2) > At(h, 3) THEN "True" ELSE "False"

\* macd_hist[-1] > 0 and macd_hist[-1] >= macd_hist[-2] >= macd_hist[-3]
cond_building(h) ==
    IF Len(h) < 1 THEN IndexError
    ELSE IF ~(At(h, 1) > 0) THEN "False"
    ELSE IF Len(h) < 2 THEN IndexError
    ELSE IF ~(At(h, 1) >= At(h, 2)) THEN "False"
    ELSE IF Len(h) < 3 THEN IndexError
    ELSE IF At(h, 2) >= At(h, 3) THEN "True" ELSE "False"

\* 0 < macd_hist[-1] <= macd_hist[-2] <= macd_hist[-3] <= macd_hist[-4]
cond_fading(h) ==
    IF Len(h) < 1 THEN IndexError
    ELSE IF ~(0 < At(h, 1)) THEN "False"
    ELSE IF Len(h) < 2 THEN IndexError
    ELSE IF ~(At(h, 1) <= At(h, 2)) THEN "False"
    ELSE IF Len(h) < 3 THEN IndexError
    ELSE IF ~(At(h, 2) <= At(h, 3)) THEN "False"
    ELSE IF Len(h) < 4 THEN IndexError
    ELSE IF At(h, 3) <= At(h, 4) THEN "True" ELSE "False"

\* macd_hist[-1] > 0
cond_positive(h) ==
    IF Len(h) < 1 THEN IndexError
    ELSE IF At(h, 1) > 0 THEN "True" ELSE "False"

\* the chain with the fading test first
macd_branch_fading_first(h) ==
    IF cond_fading(h) = IndexError THEN IndexError
    ELSE IF cond_fading(h) = "True" THEN "fading"
    ELSE IF cond_building(h) = IndexError THEN IndexError
    ELSE IF cond_building(h) = "True" THEN "building"
    ELSE IF cond_positive(h) = IndexError THEN IndexError
    ELSE IF cond_positive(h) = "True" THEN "positive"
    ELSE "negative"

\* the chain behind a check that four values are there
macd_branch_requires_four(h) ==
    IF Len(h) < 4 THEN IndexError
    ELSE IF cond_building(h) = "True" THEN "building"
    ELSE IF cond_fading(h) = "True" THEN "fading"
    ELSE IF cond_positive(h) = "True" THEN "positive"
    ELSE "negative"

\* the branch of the if/elif chain that returns
macd_branch(h) ==
    IF cond_building(h) = IndexError THEN IndexError
    ELSE IF cond_building(h) = "True" THEN "building"
    ELSE IF cond_fading(h) = IndexError THEN IndexError
    ELSE IF cond_fading(h) = "True" THEN "fading"
    ELSE IF cond_positive(h) = IndexError THEN IndexError
    ELSE IF cond_positive(h) = "True" THEN "positive"
    ELSE "negative"

\* the TradebotAction returned, or the error raised
macd_signal(h) ==
    CASE macd_branch(h) = "building" -> "BUY"
      [] macd_branch(h) = "fading" -> "SELL"
      [] macd_branch(h) = "positive" -> "HOLD"
      [] macd_branch(h) = "negative" -> "SELL"
      [] OTHER -> IndexError

-----------------------------------------------------------------------------
(* SpecSignal: macd_signal applied once to a histogram of any length up to  *)
(* MaxHistLen over the values -1..HistMax.                                  *)

MaxHistLen == 5

HistMax == 2

Histograms == UNION {[1..n -> (-1)..HistMax] : n \in 0..MaxHistLen}

InitSignal ==
    /\ macd_hist \in Histograms
    /\ verdict = PendingVerdict
    /\ quota = QuotaThreshold
    /\ markets = Symbols
    /\ available = [s \in Symbols |-> 0]
    /\ inOrder = [s \in Symbols |-> 0]
    /\ funds = 0
    /\ series = [s \in Symbols |-> FullSeries(<<1, 2, 3, 4>>)]
    /\ ticker24 = [s \in Symbols |-> NullTicker]
    /\ rejects = {}
    /\ server_time = ClockBase
    /\ candle_opens = {}
    /\ clock = IdleClock
    /\ ohlcv = IdleSeries
    /\ rsi_column = <<>>
    /\ workers = <<>>
    /\ available_symbols = sorted_unique(markets \cup {"EUR"})
    /\ lastOp = IdleOp
    /\ pc = "unused"
    /\ it = IdleIteration

EvalSignal ==
    /\ verdict = PendingVerdict
    /\ verdict' = [action |-> macd_signal(macd_hist), branch |-> macd_branch(macd_hist)]
    /\ UNCHANGED <<quota, exchangeVars, available_symbols, lastOp, pc, it, clock, ohlcv, rsi_column, workers, macd_hist>>

NextSignal == EvalSignal

SpecSignal == InitSignal /\ [][NextSignal]_vars

-----------------------------------------------------------------------------
(* Claims about macd_signal, checked under SpecSignal *)

Evaluated == verdict.action \notin {"pending", "unused"}

\* the four trailing values, h4 the latest
h1 == At(macd_hist, 4)

h2 == At(macd_hist, 3)

h3 == At(macd_hist, 2)

h4 == At(macd_hist, 1)

\* the reference function of the claim
ReferenceVerdict ==
    IF h4 > 0 /\ h2 <= h3 /\ h3 <= h4 THEN "BUY"
    ELSE IF h4 > 0 /\ h1 >= h2 /\ h2 >= h3 /\ h3 >= h4 THEN "SELL"
    ELSE IF h4 > 0 THEN "HOLD"
    ELSE "SELL"

\* C5: on a histogram of four or more values the verdict is the reference function of
\* its last four values, and it is one of BUY, HOLD, SELL.
C5_VerdictIsReference ==
    (Evaluated /\ Len(macd_hist) >= 4) =>
        /\ verdict.action = ReferenceVerdict
        /\ verdict.action \in {"BUY", "HOLD", "SELL"}

\* C5 witness: a positive tail in neither order was evaluated to HOLD
C5_Witness ==
    /\ Evaluated
    /\ macd_hist = <<1, 2, 1, 2>>
    /\ verdict.action = "HOLD"

\* C6: a tail that satisfies the BUY ordering and the fading ordering gives BUY, and
\* the fading SELL is returned only when one of the last two steps strictly decreases.
C6_BuyEvaluatedFirst ==
    (Evaluated /\ Len(macd_hist) >= 4) =>
        /\ (h4 > 0 /\ h2 <= h3 /\ h3 <= h4 /\ h1 >= h2 /\ h2 >= h3 /\ h3 >= h4)
              => verdict.action = "BUY"
        /\ verdict.branch = "fading" => (h2 > h3 \/ h3 > h4)

\* C6 witness: a flat positive run was evaluated to BUY
C6_Witness ==
    /\ Evaluated
    /\ macd_hist = <<2, 2, 2, 2>>
    /\ verdict.action = "BUY"

\* C7 as claimed: a histogram of fewer than four values never gets a verdict.
C7_NoVerdictBelowFour ==
    (Evaluated /\ Len(macd_hist) < 4) => verdict.action \notin {"BUY", "HOLD", "SELL"}

\* C7 amended: with fewer than four values the evaluator fails only when it reads a
\* missing value.  An empty histogram fails; a non-positive latest value gives SELL;
\* a positive latest value fails with one or two values, and with three values a, b, c
\* gives BUY when a <= b <= c, else fails when c <= b <= a, else gives HOLD.
C7_ShortHistogram ==
    (Evaluated /\ Len(macd_hist) < 4) =>
        verdict.action =
            IF Len(macd_hist) = 0 THEN IndexError
            ELSE IF h4 <= 0 THEN "SELL"
            ELSE IF Len(macd_hist) < 3 THEN IndexError
            ELSE IF h2 <= h3 /\ h3 <= h4 THEN "BUY"
            ELSE IF h4 <= h3 /\ h3 <= h2 THEN IndexError
            ELSE "HOLD"

\* C7 witness: a single non-positive value was evaluated to SELL
C7_Witness ==
    /\ Evaluated
    /\ macd_hist = <<-1>>
    /\ verdict.action = "SELL"

-----------------------------------------------------------------------------
(* backend/macd_bot.py.  macd_indicator and macd_signal are applied to the  *)
(* candles returned by get_candles: of their result the model keeps the     *)
(* number of bars and the trailing histogram (series).  Plotting the        *)
(* analysis (plot_macd_analysis) is taken to succeed.                       *)

\* the manual constants of macd_stateless_trading_bot
num_desired_positions == 4

volume_limit == 250000

macd_timeresolution == "8h"

\* bars of a full month at the 8h resolution
ExpectedBars == 90

\* minimal_funds_per_symbol = 5.1 EUR, in thousandths of a money unit
minimal_funds_per_symbol == 5100 * UnitsPerEuro

\* get_available_funds() * 0.975, in thousandths of a money unit
tradeable_funds(available_funds) == available_funds * 975

\* math.floor(math.log(volume, 10)) for volume >= 1
RECURSIVE magnitude(_)
magnitude(volume) == IF volume < 10 THEN 0 ELSE 1 + magnitude(volume \div 10)

\* The body of each function is split where it receives the result of a call:
\* the operator named after the function makes the first call, and each further
\* operator continues from the result it is given.

\* the loop of get_promising_symbols over the symbols the exchange lists
RECURSIVE promising_loop(_, _, _)
RECURSIVE promising_growth(_, _, _)
RECURSIVE promising_volume(_, _, _, _)
RECURSIVE promising_candles(_, _, _, _, _)
RECURSIVE promising_signal(_, _, _, _, _, _)
promising_loop(symbols, interesting_symbols, c) ==
    IF symbols = <<>> THEN Ok(c, interesting_symbols)
    ELSE promising_growth(symbols, interesting_symbols,
                          get_symbol_24h_percentual_change(Head(symbols), c))

\* if price_24h_growth <= 0: continue
promising_growth(symbols, interesting_symbols, growth) ==
    IF growth.err # "none" THEN growth
    ELSE IF growth.val <= 0
    THEN promising_loop(Tail(symbols), interesting_symbols, growth.c)
    ELSE promising_volume(symbols, interesting_symbols, growth.val,
                          get_symbol_24h_volume(Head(symbols), growth.c))

\* the limit itself counts as too little volume
below_volume_limit_inclusive(volume_24_h) == volume_24_h <= volume_limit

\* volume_24_h < volume_limit
below_volume_limit(volume_24_h) == volume_24_h < volume_limit

\* if volume_24h < volume_limit: continue
promising_volume(symbols, interesting_symbols, price_24h_growth, volume) ==
    IF volume.err # "none" THEN volume
    ELSE IF below_volume_limit(volume.val)
    THEN promising_loop(Tail(symbols), interesting_symbols, volume.c)
    ELSE promising_candles(symbols, interesting_symbols, price_24h_growth, volume.val,
             get_candles(Head(symbols), macd_timeresolution, "1m", volume.c))

\* if len(candles.as_dataframe()) != 90: continue
promising_candles(symbols, interesting_symbols, price_24h_growth, volume_24h, candles) ==
    IF candles.err # "none" THEN candles
    ELSE IF candles.val.bars # ExpectedBars
    THEN promising_loop(Tail(symbols), interesting_symbols, candles.c)
    ELSE promising_signal(symbols, interesting_symbols, price_24h_growth, volume_24h,
                          candles.c, macd_signal(candles.val.hist))

\* only a HOLD verdict disqualifies a symbol
verdict_disqualifies_hold_only(macd_ind) == macd_ind = "HOLD"

\* macd_ind != TradebotAction.BUY
verdict_disqualifies(macd_ind) == macd_ind # "BUY"

\* if macd_ind != TradebotAction.BUY: continue; else the symbol is appended
promising_signal(symbols, interesting_symbols, price_24h_growth, volume_24h, c, macd_ind) ==
    IF macd_ind = IndexError THEN Raise(c, IndexError)
    ELSE IF verdict_disqualifies(macd_ind)
    THEN promising_loop(Tail(symbols), interesting_symbols, c)
    ELSE promising_loop(Tail(symbols),
             Append(interesting_symbols,
                    [symbol |-> Head(symbols),
                     price_24h_growth |-> price_24h_growth,
                     volume_24h |-> volume_24h,
                     volume_24h_magnitude |-> magnitude(volume_24h),
                     macd_ind |-> macd_ind]),
             c)

\* the symbols come from the exchange at every scan
promising_symbols(symbols) ==
    IF symbols.err # "none" THEN symbols
    ELSE promising_loop(symbols.val, <<>>, symbols.c)

get_promising_symbols(c) == promising_symbols(get_available_symbols(c))

\* the key with the growth before the magnitude
key_le_growth_first(a, b) ==
    \/ a.price_24h_growth < b.price_24h_growth
    \/ /\ a.price_24h_growth = b.price_24h_growth
       /\ a.volume_24h_magnitude <= b.volume_24h_magnitude

\* the sort key (x[1], x[2]) of select_best_symbols: is a's key <= b's key?
key_le(a, b) ==
    \/ a.volume_24h_magnitude < b.volume_24h_magnitude
    \/ /\ a.volume_24h_magnitude = b.volume_24h_magnitude
       /\ a.price_24h_growth <= b.price_24h_growth

\* last inserted into rest, a sorted list of the elements before it: after the
\* elements whose key is not greater
insert_sorted(rest, last) ==
    SelectSeq(rest, LAMBDA x : key_le(x, last)) \o <<last>>
        \o SelectSeq(rest, LAMBDA x : ~key_le(x, last))

\* sorted(data, key=...): stable, ascending
RECURSIVE sorted_by_key(_)
sorted_by_key(data) ==
    IF data = <<>> THEN <<>>
    ELSE insert_sorted(sorted_by_key(SubSeq(data, 1, Len(data) - 1)), data[Len(data)])

Reverse(seq) == [i \in DOMAIN seq |-> seq[Len(seq) + 1 - i]]

\* data[:num_symbols_to_select], then the symbol of each entry
best_symbols(data, num_symbols_to_select) ==
    [i \in 1..Min(num_symbols_to_select, Len(data)) |-> data[i].symbol]

select_best_symbols(interesting_symbols, num_symbols_to_select) ==
    best_symbols(Reverse(sorted_by_key(interesting_symbols)), num_symbols_to_select)

\* a buy the exchange rejects raises instead of being logged
live_buy_raising(symbol, amount_in_euro, c) ==
    IF buy(symbol, amount_in_euro, c).err = "none" /\ symbol \in rejects
    THEN Raise(buy(symbol, amount_in_euro, c).c, "OrderRejected")
    ELSE buy(symbol, amount_in_euro, c)

\* response = exchange_client.buy(symbol, amount_in_euro); an "error" in the
\* response is logged and False is returned, which the caller ignores
live_buy(symbol, amount_in_euro, c) == buy(symbol, amount_in_euro, c)

\* client.sell(symbol, amount_in_coins)
sell_amount(symbol, amount_in_coins) ==
    IF amount_in_coins.err # "none" THEN amount_in_coins
    ELSE sell(symbol, amount_in_coins.val, amount_in_coins.c)

live_sell(symbol, c) == sell_amount(symbol, get_symbol_owned_amount(symbol, c))

\* the loop of open_new_positions over the selected symbols
RECURSIVE buy_loop(_, _, _)
RECURSIVE buy_next(_, _, _)
buy_loop(selected_symbols, funds_per_symbol, c) ==
    IF selected_symbols = <<>> THEN Ok(c, NoVal)
    ELSE buy_next(selected_symbols, funds_per_symbol,
                  live_buy(Head(selected_symbols), funds_per_symbol, c))

buy_next(selected_symbols, funds_per_symbol, bought) ==
    IF bought.err # "none" THEN bought
    ELSE buy_loop(Tail(selected_symbols), funds_per_symbol, bought.c)

\* any funds at all are taken to be enough
enough_funds_any(tradeable, num_pos_to_open) == tradeable > 0

\* the test with "at least" for "more than"
enough_funds_inclusive(tradeable, num_pos_to_open) ==
    tradeable >= minimal_funds_per_symbol * num_pos_to_open

\* tradeable_funds > minimal_funds_per_symbol * num_pos_to_open
enough_funds(tradeable, num_pos_to_open) ==
    tradeable > minimal_funds_per_symbol * num_pos_to_open

\* the amount divided over the desired positions instead of the slots to fill
funds_per_symbol_by_target(tradeable, additional_pos) ==
    tradeable \div (1000 * UnitsPerEuro * num_desired_positions)

\* the share of a slot rounded up to whole EUR
funds_per_symbol_rounded_up(tradeable, additional_pos) ==
    CeilDiv(tradeable, 1000 * UnitsPerEuro * additional_pos)

\* np.floor(tradeable_funds / additional_pos), in EUR
funds_per_symbol_of(tradeable, additional_pos) ==
    tradeable \div (1000 * UnitsPerEuro * additional_pos)

\* what open_new_positions has done when r ended it: the values it computed, whether
\* it scanned the exchange, and the error of r, if any
OpenResult(r, num_open_pos, tradeable, scanned, interesting, selected, per_symbol) ==
    [err |-> r.err, c |-> r.c, num_open_pos |-> num_open_pos,
     tradeable_funds |-> tradeable, scanned |-> scanned,
     interesting_symbols |-> interesting, selected_symbols |-> selected,
     funds_per_symbol |-> per_symbol]

\* for s in selected_symbols: live_buy(client, s, funds_per_symbol)
open_selected(num_open_pos, tradeable, interesting, selected, funds_per_symbol) ==
    OpenResult(buy_loop(selected, funds_per_symbol, interesting.c), num_open_pos,
               tradeable, TRUE, interesting.val, selected, funds_per_symbol)

\* the best symbols are selected and the funds divided over the slots to fill
open_scanned(num_open_pos, tradeable, interesting) ==
    IF interesting.err # "none"
    THEN OpenResult(interesting, num_open_pos, tradeable, TRUE, <<>>, <<>>, 0)
    ELSE open_selected(num_open_pos, tradeable, interesting,
             select_best_symbols(interesting.val, num_desired_positions - num_open_pos),
             funds_per_symbol_of(tradeable, num_desired_positions - num_open_pos))

\* if num_open_pos < num_desired_positions and tradeable_funds > ...: scan and buy;
\* both other branches only log
open_funded(num_open_pos, tradeable, c) ==
    IF num_open_pos < num_desired_positions
       /\ enough_funds(tradeable, num_desired_positions - num_open_pos)
    THEN open_scanned(num_open_pos, tradeable, get_promising_symbols(c))
    ELSE OpenResult(Ok(c, NoVal), num_open_pos, tradeable, FALSE, <<>>, <<>>, 0)

\* tradeable_funds = client.get_available_funds() * (1 - taker_fee)
open_funds(num_open_pos, available_funds) ==
    IF available_funds.err # "none"
    THEN OpenResult(available_funds, num_open_pos, 0, FALSE, <<>>, <<>>, 0)
    ELSE open_funded(num_open_pos, tradeable_funds(available_funds.val), available_funds.c)

\* num_open_pos = len(owned_symbols)
open_owned(owned_symbols) ==
    IF owned_symbols.err # "none"
    THEN OpenResult(owned_symbols, 0, 0, FALSE, <<>>, <<>>, 0)
    ELSE open_funds(Len(owned_symbols.val), get_available_funds(owned_symbols.c))

open_new_positions(c) == open_owned(get_owned_symbols(c))

\* the position is sold on every verdict but BUY
sell_on_not_buy(macd_ind) == macd_ind # "BUY"

\* if macd_ind == TradebotAction.SELL
sell_on(macd_ind) == macd_ind = "SELL"

\* the loop of analyse_existing_positions over the owned symbols; reviewed keeps each
\* symbol whose signal was evaluated, with its verdict
RECURSIVE review_loop(_, _, _)
RECURSIVE review_candles(_, _, _)
RECURSIVE review_signal(_, _, _, _)
RECURSIVE review_sold(_, _, _)
review_loop(owned, reviewed, c) ==
    IF owned = <<>> THEN [err |-> "none", reviewed |-> reviewed, c |-> c]
    ELSE review_candles(owned, reviewed,
                        get_candles(Head(owned), macd_timeresolution, "1m", c))

\* macd_ind = macd_signal(macd_indicator(candles, *macd_params))
review_candles(owned, reviewed, candles) ==
    IF candles.err # "none"
    THEN [err |-> candles.err, reviewed |-> reviewed, c |-> candles.c]
    ELSE review_signal(owned, reviewed, candles.c, macd_signal(candles.val.hist))

\* if macd_ind == TradebotAction.SELL: live_sell(client, os)
review_signal(owned, reviewed, c, macd_ind) ==
    IF macd_ind = IndexError
    THEN [err |-> IndexError, reviewed |-> reviewed, c |-> c]
    ELSE IF sell_on(macd_ind)
    THEN review_sold(owned,
                     Append(reviewed, [symbol |-> Head(owned), macd_ind |-> macd_ind]),
                     live_sell(Head(owned), c))
    ELSE review_loop(Tail(owned),
                     Append(reviewed, [symbol |-> Head(owned), macd_ind |-> macd_ind]), c)

\* the analysis is plotted and the loop goes on
review_sold(owned, reviewed, sold) ==
    IF sold.err # "none" THEN [err |-> sold.err, reviewed |-> reviewed, c |-> sold.c]
    ELSE review_loop(Tail(owned), reviewed, sold.c)

\* what the review has done: the symbols it found owned, those it reviewed, and the
\* error that ended it, if any
review_result(owned, r) ==
    [err |-> r.err, owned |-> owned, reviewed |-> r.reviewed, c |-> r.c]

\* owned_symbols = client.get_owned_symbols()
review_owned(owned_symbols) ==
    IF owned_symbols.err # "none"
    THEN [err |-> owned_symbols.err, owned |-> <<>>, reviewed |-> <<>>,
          c |-> owned_symbols.c]
    ELSE review_result(owned_symbols.val,
                       review_loop(owned_symbols.val, <<>>, owned_symbols.c))

analyse_existing_positions(c) == review_owned(get_owned_symbols(c))

-----------------------------------------------------------------------------
(* Spec: macd_stateless_trading_bot.  One action per step of the while loop *)
(* body; an exception that leaves the loop body leaves the function.        *)

BuyTail == <<1, 2, 3, 4>>

HoldTail == <<1, 2, 1, 2>>

SellTail == <<4, 3, 2, 1>>

\* a market listed three candles ago
ShortSeries == [bars |-> 3, hist |-> <<3, 2, 1>>]

\* the markets of the bot's runs: growth 3% / 1% / 7% / 0% and volumes of
\* magnitude 5 / 7 / 6 / 6, ADA trading exactly the volume limit
BotTicker ==
    [s \in Symbols |->
        CASE s = "ADA" -> Ticker(103, volume_limit)
          [] s = "BTC" -> Ticker(101, 25000000)
          [] s = "ETH" -> Ticker(107, 2600000)
          [] s = "XRP" -> Ticker(100, 2600000)
          [] OTHER -> Ticker(105, 2600000)]

\* the same markets with ADA trading one below the volume limit
ThinTicker == [BotTicker EXCEPT !["ADA"] = Ticker(103, volume_limit - 1)]

SeriesChoices(s) ==
    {FullSeries(BuyTail)}
        \cup (IF s # "XRP" THEN {FullSeries(SellTail)} ELSE {})
        \cup (IF s = "BTC" THEN {FullSeries(HoldTail)} ELSE {})
        \cup (IF s = "ADA" THEN {ShortSeries} ELSE {})

\* EUR balances around the minimal stake of four positions (4 * 204 units), and
\* 4000 units, of which 97.5% are 100 EUR
FundsChoices == {4 * 204 - 1, 4 * 204, 4 * 204 + 1, 4000}

\* the markets whose orders the exchange rejects, in one run
RejectsChoices == {{}, {"BTC"}}

Init ==
    /\ quota \in InitialQuotas
    /\ markets = Symbols \ {NewMarket}
    /\ available \in [Symbols -> {0, 2}]
    /\ available[NewMarket] = 0
    /\ inOrder \in [Symbols -> {0, 1}]
    /\ \A s \in Symbols : inOrder[s] = 1 => s = "ETH"
    /\ funds \in FundsChoices
    /\ series \in [Symbols -> UNION {SeriesChoices(s) : s \in Symbols}]
    /\ \A s \in Symbols : series[s] \in SeriesChoices(s)
    /\ series[NewMarket] = FullSeries(BuyTail)
    /\ ticker24 \in {BotTicker, ThinTicker}
    /\ ticker24 = ThinTicker => series["ADA"] = FullSeries(BuyTail)
    /\ rejects \in RejectsChoices
    /\ server_time = ClockBase
    /\ candle_opens = {}
    /\ clock = IdleClock
    /\ ohlcv = IdleSeries
    /\ rsi_column = <<>>
    /\ workers = <<>>
    /\ available_symbols = sorted_unique(markets \cup {"EUR"})
    /\ lastOp = IdleOp
    /\ pc = "review"
    /\ it = IdleIteration
    /\ macd_hist = <<>>
    /\ verdict = NoVerdict

\* the orders of result r are filled by the exchange
Filled(r) == FillOrders(r.c.orders, available, funds, <<>>)

\* analyse_existing_positions(client, macd_params)
Review ==
    /\ pc = "review"
    /\ \E r \in {analyse_existing_positions(Ctx(quota))} : \E f \in {Filled(r)} :
          /\ quota' = r.c.q
          /\ available' = f.available
          /\ funds' = f.funds
          /\ it' = [it EXCEPT !.review =
                        [done |-> TRUE, err |-> r.err, owned |-> r.owned,
                         reviewed |-> r.reviewed, orders |-> r.c.orders,
                         responses |-> f.responses]]
          /\ pc' = IF r.err = "none" THEN "open" ELSE "crashed"
    /\ UNCHANGED <<markets, inOrder, series, ticker24, rejects, server_time,
                   candle_opens, available_symbols,
                   lastOp, clock, ohlcv, rsi_column, workers, macd_hist, verdict>>

\* open_new_positions(client, volume_limit, macd_params, num_desired_positions, taker_fee)
Open ==
    /\ pc = "open"
    /\ \E r \in {open_new_positions(Ctx(quota))} : \E f \in {Filled(r)} :
          /\ quota' = r.c.q
          /\ available' = f.available
          /\ funds' = f.funds
          /\ it' = [it EXCEPT !.open =
                        [done |-> TRUE, err |-> r.err, num_open_pos |-> r.num_open_pos,
                         tradeable_funds |-> r.tradeable_funds, scanned |-> r.scanned,
                         interesting_symbols |-> r.interesting_symbols,
                         selected_symbols |-> r.selected_symbols,
                         funds_per_symbol |-> r.funds_per_symbol,
                         orders |-> r.c.orders, responses |-> f.responses]]
          /\ pc' = IF r.err = "none" THEN "sleep" ELSE "crashed"
    /\ UNCHANGED <<markets, inOrder, series, ticker24, rejects, server_time,
                   candle_opens, available_symbols,
                   lastOp, clock, ohlcv, rsi_column, workers, macd_hist, verdict>>

\* the cooldown is over: the next iteration starts
Sleep ==
    /\ pc = "sleep"
    /\ pc' = "review"
    /\ it' = IdleIteration
    /\ UNCHANGED <<quota, exchangeVars, available_symbols, lastOp, clock, ohlcv, rsi_column, workers, macd_hist, verdict>>

Next ==
    \/ Review
    \/ Open
    \/ Sleep
    \/ QuotaReset
    \/ MarketListed

Spec == Init /\ [][Next]_vars

-----------------------------------------------------------------------------
(* Properties of the trading loop (Spec) *)

\* the symbols the exchange reports as owned, in the order of the balance
OwnedNow ==
    SelectSeq(BalanceOrder, LAMBDA s : s # "EUR" /\ (available[s] > 0 \/ inOrder[s] > 0))

\* the symbols of a sequence of records
SymbolsOf(records) == [i \in DOMAIN records |-> records[i].symbol]

\* the step of the loop body that ran
ReviewStep == pc = "review" /\ pc' # "review"

OpenStep == pc = "open" /\ pc' # "open"

\* C3: once the review step of an iteration has run, every symbol that was owned
\* at its start has been reviewed, whatever failed for another symbol.
C3_EveryOwnedSymbolReviewed ==
    it.review.done => SymbolsOf(it.review.reviewed) = it.review.owned

\* C4: no failure inside an iteration terminates the loop.
C4_LoopNeverTerminates == pc # "crashed"

\* the orders the review step placed for symbol s
ReviewOrders(s) == SelectSeq(it'.review.orders, LAMBDA o : o.symbol = s)

\* the verdicts the review step computed for symbol s
ReviewVerdicts(s) == SelectSeq(it'.review.reviewed, LAMBDA r : r.symbol = s)

\* C8 as stated: for each owned symbol whose verdict the review step computed, a
\* sell of the amount held is placed if and only if that verdict is SELL.
C8_SellIffVerdictSell ==
    [][ReviewStep =>
        \A r \in Range(it'.review.reviewed) :
            (\E i \in DOMAIN it'.review.orders :
                it'.review.orders[i] =
                    [side |-> "sell", symbol |-> r.symbol, amount |-> available[r.symbol]])
                <=> r.macd_ind = "SELL"]_vars

\* C8, amended: the review step places at most one order per symbol, only for an
\* owned symbol whose computed verdict is SELL, and it is a sell of the amount the
\* balance reports as available; a symbol whose computed verdict is SELL gets its
\* sell unless an error ended the step at that symbol.
C8_SellOnlyOnVerdictSell ==
    [][ReviewStep =>
        \A s \in Symbols :
            /\ Len(ReviewOrders(s)) <= 1
            /\ ReviewOrders(s) # <<>> =>
                  /\ s \in Range(OwnedNow)
                  /\ ReviewOrders(s)[1].side = "sell"
                  /\ ReviewOrders(s)[1].amount = available[s]
                  /\ ReviewVerdicts(s) = <<[symbol |-> s, macd_ind |-> "SELL"]>>
                  /\ macd_signal(series[s].hist) = "SELL"
            /\ ( /\ ReviewVerdicts(s) # <<>>
                 /\ ReviewVerdicts(s)[1].macd_ind = "SELL"
                 /\ ReviewOrders(s) = <<>> )
               => /\ it'.review.err # "none"
                  /\ it'.review.reviewed[Len(it'.review.reviewed)].symbol = s]_vars

\* a review that sold one position and kept another
C8_Witness ==
    /\ it.review.done
    /\ it.review.err = "none"
    /\ \E i, j \in DOMAIN it.review.reviewed :
          /\ it.review.reviewed[i].macd_ind = "SELL"
          /\ it.review.reviewed[j].macd_ind = "HOLD"
          /\ SymbolsOf(it.review.orders) = <<it.review.reviewed[i].symbol>>
          /\ it.review.responses = <<"filled">>

\* the slots to fill and the funds the opening step may spend, in the state it starts
SlotsNow == num_desired_positions - Len(OwnedNow)

TradeableNow == funds * 975

\* the opening step got as far as its test of positions and funds
OpenDecided == it'.open.err = "none" \/ it'.open.scanned

\* C9 as stated: the opening step scans the exchange if and only if there are
\* fewer open positions than the target and the tradeable funds are at least 5.1
\* EUR per slot to fill.
C9_OpensIffAtLeastMinimum ==
    [][(OpenStep /\ OpenDecided) =>
        (it'.open.scanned <=>
            (SlotsNow > 0 /\ TradeableNow >= 5100 * UnitsPerEuro * SlotsNow))]_vars

\* C9, amended: the opening step scans the exchange if and only if there are fewer
\* open positions than the target and the tradeable funds are more than 5.1 EUR per
\* slot to fill; it buys only if it scanned.
C9_OpensIffAboveMinimum ==
    [][OpenStep =>
        /\ OpenDecided =>
              (it'.open.scanned <=>
                  (SlotsNow > 0 /\ TradeableNow > 5100 * UnitsPerEuro * SlotsNow))
        /\ it'.open.orders # <<>> => it'.open.scanned]_vars

\* an opening step with free slots and exactly 5.1 EUR per slot: nothing is scanned
C9_Witness ==
    /\ it.open.done
    /\ it.open.err = "none"
    /\ it.open.num_open_pos < num_desired_positions
    /\ it.open.tradeable_funds
          = 5100 * UnitsPerEuro * (num_desired_positions - it.open.num_open_pos)
    /\ ~it.open.scanned

\* C10 as stated: with S slots to fill and P promising symbols, the opening step
\* places exactly min(S, P) buys.
C10_ExactlyMinBuys ==
    [][(OpenStep /\ it'.open.scanned) =>
        (it'.open.interesting_symbols # <<>> =>
            Len(it'.open.orders) = Min(SlotsNow, Len(it'.open.interesting_symbols)))]_vars

\* C10, amended: with S slots to fill and P promising symbols, min(S, P) symbols
\* are selected; the buys placed are for the first of them, in order, one each, of
\* floor(tradeable / S) EUR each; all min(S, P) are placed unless an error ended
\* the step.
C10_BuysOfSlotShare ==
    [][(OpenStep /\ it'.open.scanned /\ it'.open.interesting_symbols # <<>>) =>
        /\ Len(it'.open.selected_symbols)
              = Min(SlotsNow, Len(it'.open.interesting_symbols))
        /\ Len(it'.open.orders) <= Len(it'.open.selected_symbols)
        /\ \A i \in DOMAIN it'.open.orders :
              it'.open.orders[i] =
                  [side |-> "buy", symbol |-> it'.open.selected_symbols[i],
                   amount |-> TradeableNow \div (1000 * UnitsPerEuro * SlotsNow)]
        /\ \A i, j \in DOMAIN it'.open.selected_symbols :
              it'.open.selected_symbols[i] = it'.open.selected_symbols[j] => i = j
        /\ it'.open.err = "none" =>
              Len(it'.open.orders) = Len(it'.open.selected_symbols)]_vars

\* no position open, 100 EUR tradeable, two promising symbols: two buys of 25 EUR
C10_Witness ==
    /\ it.open.done
    /\ it.open.num_open_pos = 0
    /\ it.open.tradeable_funds = 100 * 1000 * UnitsPerEuro
    /\ Len(it.open.interesting_symbols) = 2
    /\ Len(it.open.orders) = 2
    /\ \A i \in DOMAIN it.open.orders : it.open.orders[i].amount = 25
    /\ it.open.responses = <<"filled", "filled">>

\* C11: when the open positions are at or above the target, or the tradeable funds
\* are not more than 5.1 EUR per slot to fill, the opening step does not scan the
\* exchange and places no buy order.
C11_NoScanNoBuyWhenSkipped ==
    [][OpenStep =>
        ((SlotsNow <= 0 \/ TradeableNow <= 5100 * UnitsPerEuro * SlotsNow) =>
            /\ ~it'.open.scanned
            /\ it'.open.interesting_symbols = <<>>
            /\ it'.open.orders = <<>>
            /\ it'.open.responses = <<>>
            /\ funds' = funds
            /\ available' = available)]_vars

\* an opening step with free slots and less than 5.1 EUR per slot has ended
\* without a scan and without an order
C11_Witness ==
    /\ it.open.done
    /\ it.open.err = "none"
    /\ it.open.num_open_pos < num_desired_positions
    /\ it.open.tradeable_funds
          < 5100 * UnitsPerEuro * (num_desired_positions - it.open.num_open_pos)
    /\ ~it.open.scanned
    /\ it.open.orders = <<>>
    /\ pc = "sleep"

\* the 24h change of a market in percent, as the exchange's ticker gives it
GrowthNow(s) ==
    IF ticker24[s].ok
    THEN ((ticker24[s].last - ticker24[s].open) * 100) \div ticker24[s].open
    ELSE 0

\* the 24h quote volume of a market, as the exchange's ticker gives it
VolumeNow(s) == IF ticker24[s].ok THEN ticker24[s].volumeQuote ELSE 0

-----------------------------------------------------------------------------
(* SpecSelect: select_best_symbols applied to the promising symbols a scan   *)
(* can return: a dict of distinct symbols in any insertion order.           *)

MaxSelect == 4

SelectMagnitudes == {5, 6}

SelectGrowths == {1, 2}

\* the entry get_promising_symbols records for a symbol
Promising(symbol, magnitude_24h, growth) ==
    [symbol |-> symbol, price_24h_growth |-> growth,
     volume_24h |-> IF magnitude_24h = 5 THEN 250000 ELSE 2600000,
     volume_24h_magnitude |-> magnitude_24h, macd_ind |-> "BUY"]

SelectSymbols == {"ADA", "BTC", "ETH"}

\* the dicts of up to three promising symbols, as sequences in insertion order
Candidates ==
    UNION {{[i \in 1..n |-> Promising(syms[i], mags[i], grs[i])] :
                syms \in {f \in [1..n -> SelectSymbols] :
                              \A i, j \in 1..n : f[i] = f[j] => i = j},
                mags \in [1..n -> SelectMagnitudes],
                grs \in [1..n -> SelectGrowths]} : n \in 0..3}

InitSelect ==
    /\ \E data \in Candidates, n \in 0..MaxSelect :
          lastOp = [IdleOp EXCEPT !.name = "select_pending", !.args = <<data, n>>]
    /\ quota = QuotaThreshold
    /\ markets = Symbols
    /\ available = [s \in Symbols |-> 0]
    /\ inOrder = [s \in Symbols |-> 0]
    /\ funds = 0
    /\ series = [s \in Symbols |-> FullSeries(<<1, 2, 3, 4>>)]
    /\ ticker24 = [s \in Symbols |-> NullTicker]
    /\ rejects = {}
    /\ server_time = ClockBase
    /\ candle_opens = {}
    /\ clock = IdleClock
    /\ ohlcv = IdleSeries
    /\ rsi_column = <<>>
    /\ workers = <<>>
    /\ available_symbols = sorted_unique(markets \cup {"EUR"})
    /\ pc = "unused"
    /\ it = IdleIteration
    /\ macd_hist = <<>>
    /\ verdict = NoVerdict

\* selected_symbols = select_best_symbols(interesting_symbols, additional_pos)
ApplySelect ==
    /\ lastOp.name = "select_pending"
    /\ lastOp' = [lastOp EXCEPT
                     !.name = "select_best_symbols",
                     !.val = select_best_symbols(lastOp.args[1], lastOp.args[2])]
    /\ UNCHANGED <<quota, exchangeVars, available_symbols, pc, it, clock, ohlcv, rsi_column, workers, macd_hist, verdict>>

NextSelect == ApplySelect

SpecSelect == InitSelect /\ [][NextSelect]_vars

\* the candidate of a symbol
CandidateOf(data, s) == CHOOSE r \in Range(data) : r.symbol = s

\* a ranks at or above b: a higher magnitude, or the same magnitude and at least
\* the growth
RanksAtOrAbove(a, b) ==
    \/ a.volume_24h_magnitude > b.volume_24h_magnitude
    \/ /\ a.volume_24h_magnitude = b.volume_24h_magnitude
       /\ a.price_24h_growth >= b.price_24h_growth

\* C13: select_best_symbols returns min(N, number of candidates) distinct
\* candidate symbols in descending lexicographic order of (magnitude of the 24h
\* volume, 24h growth), and no candidate left out ranks strictly above one
\* returned.
C13_BestSymbolsRanked ==
    lastOp.name = "select_best_symbols" =>
        LET data == lastOp.args[1]
            n == lastOp.args[2]
            res == lastOp.val
        IN /\ Len(res) = Min(n, Len(data))
           /\ \A i, j \in DOMAIN res : res[i] = res[j] => i = j
           /\ Range(res) \subseteq Range(SymbolsOf(data))
           /\ \A i, j \in DOMAIN res :
                 i < j => RanksAtOrAbove(CandidateOf(data, res[i]),
                                         CandidateOf(data, res[j]))
           /\ \A r \in Range(data) :
                 r.symbol \notin Range(res) =>
                     \A i \in DOMAIN res : RanksAtOrAbove(CandidateOf(data, res[i]), r)

\* two of three candidates were selected: the one of higher magnitude and lower
\* growth first, then, of two of equal magnitude, the one of higher growth
C13_Witness ==
    /\ lastOp.name = "select_best_symbols"
    /\ lastOp.args = <<<<Promising("ADA", 5, 1), Promising("BTC", 6, 1),
                        Promising("ETH", 5, 2)>>, 2>>
    /\ lastOp.val = <<"BTC", "ETH">>

-----------------------------------------------------------------------------
(* Further properties of the gateway operations (SpecGateway) *)

\* the step in which the gateway operation of that name ran
GatewayStep(name) == lastOp' # lastOp /\ lastOp'.name = name

\* C14: a panic that got as far as its first sell places a sell of the full
\* available amount for every symbol owned when it is invoked, whatever fails
\* for another symbol on the way.
C14_PanicSellsEveryOwnedSymbol ==
    [][(GatewayStep("panic") /\ lastOp'.orders # <<>>) =>
        \A s \in Range(OwnedNow) :
            [side |-> "sell", symbol |-> s, amount |-> available[s]]
                \in Range(lastOp'.orders)]_vars

\* C15 as stated: get_symbol_price("EUR") returns 1.0 and issues no call to the
\* exchange in every state of the gateway, a remaining limit below 100 included.
C15_EurPriceAlways ==
    (lastOp.name = "get_symbol_price" /\ lastOp.args = <<"EUR">>) =>
        /\ lastOp.err = "none"
        /\ lastOp.val = UnitsPerEuro
        /\ CallEvents = {}

\* C15, amended: get_symbol_price("EUR") never issues a call to the exchange;
\* invoked with a remaining limit of 100 or more it returns 1.0, and invoked
\* with less it fails with the quota error like every guarded operation.
C15_EurPriceWithoutCall ==
    (lastOp.name = "get_symbol_price" /\ lastOp.args = <<"EUR">>) =>
        /\ CallEvents = {}
        /\ lastOp.orders = <<>>
        /\ lastOp.q0 >= QuotaThreshold =>
              lastOp.err = "none" /\ lastOp.val = UnitsPerEuro
        /\ lastOp.q0 < QuotaThreshold =>
              lastOp.err = QuotaError /\ lastOp.val = NoVal

\* the price of the EUR was asked with exactly 100 calls remaining, which are
\* all still there
C15_Witness ==
    /\ lastOp.name = "get_symbol_price"
    /\ lastOp.args = <<"EUR">>
    /\ lastOp.q0 = QuotaThreshold
    /\ lastOp.val = UnitsPerEuro
    /\ quota = QuotaThreshold

\* the price get_symbols_prices owes for a symbol
PriceNow(s) == IF s = "EUR" THEN UnitsPerEuro ELSE price(s)

\* C16: get_symbols_prices, asked for symbols of the client's snapshot, returns
\* a list as long as the list asked for, whose i-th price is the price of the
\* i-th symbol; asked for a symbol outside the snapshot it fails with the
\* invalid-value error.
C16_PricesAlignedWithSymbols ==
    (lastOp.name = "get_symbols_prices" /\ lastOp.q0 >= QuotaThreshold) =>
        /\ Range(lastOp.args[1]) \subseteq Range(available_symbols) =>
              /\ lastOp.err = "none"
              /\ Len(lastOp.val) = Len(lastOp.args[1])
              /\ \A i \in DOMAIN lastOp.args[1] :
                    lastOp.val[i] = PriceNow(lastOp.args[1][i])
        /\ ~(Range(lastOp.args[1]) \subseteq Range(available_symbols)) =>
              lastOp.err = ValueError

-----------------------------------------------------------------------------
(* backend/clients.py: get_candles with its request windows, and            *)
(* backend/candles.py: OHLCVCandles.  Timestamps are in ms of the            *)
(* exchange's clock; candle_opens are the minutes of the BTC-EUR market in   *)
(* which trades happened (the exchange returns no candle for an interval    *)
(* without trades).                                                          *)

\* the elements of a set of numbers, largest first
RECURSIVE SortDescending(_)
SortDescending(S) ==
    IF S = {} THEN <<>>
    ELSE <<CHOOSE x \in S : \A y \in S : y <= x>>
             \o SortDescending(S \ {CHOOSE x \in S : \A y \in S : y <= x})

\* the open-time of the candle of that resolution a minute belongs to
candle_open(minute_open, time_resolution) ==
    (minute_open \div (TIME_RESOLUTIONS[time_resolution] * 1000))
        * (TIME_RESOLUTIONS[time_resolution] * 1000)

\* self._bitvavo.candles(market, time_resolution, params): the candles that open
\* inside the window, both ends included, newest first
candles_response(time_resolution, params) ==
    SortDescending({t \in {candle_open(m, time_resolution) : m \in candle_opens} :
                        params.start <= t /\ t <= params.end})

\* a candles request; the event keeps its params
RemoteCandles(c, params) ==
    [c EXCEPT !.q = @ - 1,
              !.ev = Append(@, [k |-> "call", api |-> "candles", q |-> c.q,
                                params |-> params])]

\* the constructor reverses in place the lists of a series given newest first
OHLCVCandles_as_given(timestamps, order) == [timestamps |-> timestamps, order |-> order]

\* OHLCVCandles.__init__: if self.order == "newer-to-older": self.timestamps.reverse()
OHLCVCandles(timestamps, order) ==
    [timestamps |-> IF order = "newer-to-older" THEN Reverse(timestamps) ELSE timestamps,
     order |-> order]

\* int(math.ceil(TIME_SPANS[time_span] / TIME_RESOLUTIONS[time_resolution]))
num_candles_of(time_resolution, time_span) ==
    CeilDiv(TIME_SPANS[time_span], TIME_RESOLUTIONS[time_resolution])

\* int(math.ceil(num_candles / 1000))
num_requests_of(time_resolution, time_span) ==
    CeilDiv(num_candles_of(time_resolution, time_span), CandlesPerRequest)

\* int(begin_timestamp / 1000 - TIME_SPANS[time_span]) * 1000
end_timestamp_of(begin_timestamp, time_span) ==
    ((begin_timestamp \div 1000) - TIME_SPANS[time_span]) * 1000

\* total_time_span // num_requests
time_span_per_request_of(begin_timestamp, time_resolution, time_span) ==
    (begin_timestamp - end_timestamp_of(begin_timestamp, time_span))
        \div num_requests_of(time_resolution, time_span)

\* params = {"start": start_timestamp, "end": end_timestamp} of request request_nr
candles_params(begin_timestamp, time_span_per_request, request_nr) ==
    [start |-> begin_timestamp - (request_nr + 1) * time_span_per_request,
     end |-> begin_timestamp - request_nr * time_span_per_request]

\* for request_nr in range(num_requests): times.extend(...)
RECURSIVE candles_loop(_, _, _, _, _, _)
candles_loop(time_resolution, begin_timestamp, time_span_per_request, num_requests, request_nr, r) ==
    IF request_nr = num_requests
    THEN Ok(r.c, OHLCVCandles(r.val, "newer-to-older"))
    ELSE candles_loop(time_resolution, begin_timestamp, time_span_per_request,
             num_requests, request_nr + 1,
             Ok(RemoteCandles(r.c, candles_params(begin_timestamp, time_span_per_request,
                                                  request_nr)),
                r.val \o candles_response(time_resolution,
                             candles_params(begin_timestamp, time_span_per_request,
                                            request_nr))))

\* get_candles from begin_timestamp = int(self._bitvavo.time()["time"]) on
candles_from(time_resolution, time_span, begin_timestamp, c) ==
    candles_loop(time_resolution, begin_timestamp,
                 time_span_per_request_of(begin_timestamp, time_resolution, time_span),
                 num_requests_of(time_resolution, time_span), 0, Ok(c, <<>>))

\* get_candles of the market that has candles, with the timestamps of its series
get_candles_timestamps(symbol, time_resolution, time_span, c) ==
    LET g == limit_api_calls(c)
    IN IF g.err # "none" THEN g
       ELSE IF time_resolution \notin DOMAIN TIME_RESOLUTIONS THEN Raise(g.c, ValueError)
       ELSE IF time_span \notin DOMAIN TIME_SPANS THEN Raise(g.c, ValueError)
       ELSE IF symbol \notin Range(g.c.available_symbols) THEN Raise(g.c, ValueError)
       ELSE candles_from(time_resolution, time_span, server_time, Remote(g.c, "time"))

-----------------------------------------------------------------------------
(* SpecCandles: get_candles for BTC, at several times of the exchange's      *)
(* clock within one second and with several trade histories.                *)

\* the ms of the second at which get_candles reads the clock
ClockMillis == {0, 1, 2, 3, 500, 999}

\* minutes with trades: the last one, the one 12 hours ago (where the two
\* requests of a day of 1m candles meet), one 13 hours 54 minutes ago, and the
\* ones a day and a week ago
TradeMinutes ==
    {ClockBase - 60 * 1000, ClockBase - 720 * 60 * 1000, ClockBase - 834 * 60 * 1000,
     ClockBase - 1440 * 60 * 1000, ClockBase - 10080 * 60 * 1000}

TradeHistories ==
    {{}, {ClockBase - 60 * 1000}, TradeMinutes, TradeMinutes \ {ClockBase - 720 * 60 * 1000}}

CandlesArgs ==
    {<<"BTC", "1m", "1d">>, <<"BTC", "1m", "1w">>, <<"BTC", "1m", "2w">>,
     <<"BTC", "1h", "1d">>, <<"BTC", "1m", "8h">>, <<"BTC", "3h", "1d">>,
     <<UnknownSymbol, "1m", "1d">>}

InitCandles ==
    /\ quota \in InitialQuotas
    /\ markets = Symbols \ {NewMarket}
    /\ available = [s \in Symbols |-> 0]
    /\ inOrder = [s \in Symbols |-> 0]
    /\ funds = 0
    /\ series = [s \in Symbols |-> FullSeries(<<1, 2, 3, 4>>)]
    /\ ticker24 = [s \in Symbols |-> Ticker(5 * UnitsPerEuro, 300000)]
    /\ rejects = {}
    /\ \E ms \in ClockMillis : server_time = ClockBase + ms
    /\ candle_opens \in TradeHistories
    /\ clock = IdleClock
    /\ ohlcv = IdleSeries
    /\ rsi_column = <<>>
    /\ workers = <<>>
    /\ available_symbols = sorted_unique(markets \cup {"EUR"})
    /\ lastOp = IdleOp
    /\ pc = "unused"
    /\ it = IdleIteration
    /\ macd_hist = <<>>
    /\ verdict = NoVerdict

\* client.get_candles(symbol, time_resolution, time_span)
FetchCandles ==
    \E args \in CandlesArgs :
        \E r \in {get_candles_timestamps(args[1], args[2], args[3], Ctx(quota))} :
            /\ quota' = r.c.q
            /\ lastOp' = [name |-> "get_candles", args |-> args, q0 |-> quota,
                          err |-> r.err, val |-> r.val, ev |-> r.c.ev,
                          orders |-> <<>>, responses |-> <<>>]
            /\ UNCHANGED <<exchangeVars, available_symbols, pc, it, clock, ohlcv, rsi_column, workers, macd_hist, verdict>>

NextCandles ==
    \/ FetchCandles
    \/ QuotaReset

SpecCandles == InitCandles /\ [][NextCandles]_vars

-----------------------------------------------------------------------------
(* Properties of get_candles (SpecCandles) *)

\* get_candles has returned a series
Fetched == lastOp.name = "get_candles" /\ lastOp.err = "none"

\* C17 as stated: the series get_candles returns is ordered newest-to-oldest:
\* its first bar has the latest open-time.
C17_SeriesNewestFirst ==
    Fetched =>
        \A i, j \in DOMAIN lastOp.val.timestamps :
            i < j => lastOp.val.timestamps[i] >= lastOp.val.timestamps[j]

\* C17, amended: the series get_candles returns is ordered oldest-to-newest: the
\* open-times never decrease, so that the first bar has the earliest and the
\* last bar the latest open-time; the bars are those of the exchange's
\* responses.
C17_SeriesOldestFirst ==
    Fetched =>
        /\ \A i, j \in DOMAIN lastOp.val.timestamps :
              i < j => lastOp.val.timestamps[i] <= lastOp.val.timestamps[j]
        /\ Range(lastOp.val.timestamps)
              \subseteq {candle_open(m, lastOp.args[2]) : m \in candle_opens}
        /\ lastOp.val.order = "newer-to-older"

\* a day of 1m candles was fetched in two requests: the series starts with the
\* candle of a day ago and ends with the latest one
C17_Witness ==
    /\ Fetched
    /\ lastOp.args = <<"BTC", "1m", "1d">>
    /\ Len(lastOp.val.timestamps) >= 4
    /\ lastOp.val.timestamps[1] = ClockBase - 1440 * 60 * 1000
    /\ lastOp.val.timestamps[Len(lastOp.val.timestamps)] = ClockBase - 60 * 1000

\* the candles requests get_candles issued, in order
CandlesRequests == SelectSeq(lastOp.ev, LAMBDA e : e.k = "call" /\ e.api = "candles")

\* C18: get_candles issues exactly N = ceil(ceil(span / resolution) / 1000)
\* candles requests; request k covers [now - (k+1)*slice, now - k*slice] with
\* one slice for all k, consecutive windows are adjacent, and together the
\* windows cover the requested window from now - span to now.
C18_WindowsCoverSpan ==
    Fetched =>
        /\ Len(CandlesRequests)
              = CeilDiv(CeilDiv(TIME_SPANS[lastOp.args[3]],
                                TIME_RESOLUTIONS[lastOp.args[2]]), 1000)
        /\ \A k \in DOMAIN CandlesRequests :
              CandlesRequests[k].params =
                  [start |-> server_time
                               - k * (CandlesRequests[1].params.end
                                        - CandlesRequests[1].params.start),
                   end |-> server_time
                             - (k - 1) * (CandlesRequests[1].params.end
                                            - CandlesRequests[1].params.start)]
        /\ \A k \in DOMAIN CandlesRequests :
              k > 1 => CandlesRequests[k].params.end = CandlesRequests[k - 1].params.start
        /\ CandlesRequests[1].params.end = server_time
        /\ CandlesRequests[Len(CandlesRequests)].params.start
              <= server_time - TIME_SPANS[lastOp.args[3]] * 1000

-----------------------------------------------------------------------------
(* Input validation of the gateway (SpecGateway) *)

\* the last operation was given an input its validation refuses
InvalidInput ==
    \/ /\ lastOp.name = "get_candles"
       /\ \/ lastOp.args[2] \notin DOMAIN TIME_RESOLUTIONS
          \/ lastOp.args[3] \notin DOMAIN TIME_SPANS
          \/ lastOp.args[1] \notin Range(available_symbols)
    \/ /\ lastOp.name = "get_symbol_price"
       /\ lastOp.args[1] \notin Range(available_symbols)

\* C19: get_candles with an unsupported resolution or span or an unknown symbol,
\* and get_symbol_price with an unknown symbol, fail with the invalid-value error
\* without a call to the exchange, whenever the guard lets the operation start.
C19_InvalidInputFailsBeforeAnyCall ==
    (InvalidInput /\ lastOp.q0 >= QuotaThreshold) =>
        /\ lastOp.err = ValueError
        /\ CallEvents = {}
        /\ lastOp.orders = <<>>
        /\ lastOp.ev = <<[k |-> "read", api |-> "getRemainingLimit", q |-> lastOp.q0]>>

\* get_candles was asked for an unsupported span with exactly 100 calls
\* remaining: it failed, and the 100 calls are still there
C19_Witness ==
    /\ lastOp.name = "get_candles"
    /\ lastOp.args = <<"BTC", "8h", "3m">>
    /\ lastOp.q0 = QuotaThreshold
    /\ lastOp.err = ValueError
    /\ quota = QuotaThreshold

-----------------------------------------------------------------------------
(* Rejected orders in the buy phase (Spec) *)

\* C20: a buy the exchange rejects does not stop the buy loop: the opening step
\* in which a buy was rejected raises nothing because of it, places the buys
\* for all the selected symbols and hands over to the next iteration, unless
\* the quota guard, with less than 100 calls remaining, refuses a later buy.
C20_RejectedBuyDoesNotStopLoop ==
    [][(OpenStep /\ "error" \in Range(it'.open.responses)) =>
        /\ it'.open.err \in {"none", QuotaError}
        /\ it'.open.err = "none" =>
              /\ SymbolsOf(it'.open.orders) = it'.open.selected_symbols
              /\ Len(it'.open.responses) = Len(it'.open.selected_symbols)
              /\ pc' = "sleep"
        /\ it'.open.err = QuotaError => quota' < QuotaThreshold]_vars

\* the exchange rejected the first of two buys and filled the second, and the
\* loop waits for its next iteration
C20_Witness ==
    /\ it.open.done
    /\ it.open.err = "none"
    /\ Len(it.open.selected_symbols) = 2
    /\ it.open.responses = <<"error", "filled">>
    /\ it.open.orders[1].symbol \in rejects
    /\ pc = "sleep"

----------------------------------------------------------------------------
\* The cooldown of the event loop (macd_bot.py, run_bot): the duration of the
\* trading logic is an input, times are in milliseconds, sleeps in seconds.

timeout == 120

SecondsPerDay == 24 * 60 * 60

\* datetime.timedelta.seconds: the seconds field of the normalised
\* (days, seconds, microseconds) triple, not the total number of seconds
timedelta_seconds(millis) == (millis \div 1000) % SecondsPerDay

rem_t_of(it_t) == timeout * 60 - it_t

MaxIterations == 3

\* how long the review and the opening step of one iteration take together
IterationMillis ==
    {0, 500, 10 * 1000, 7199 * 1000, 7200 * 1000, 7201 * 1000,
     (SecondsPerDay - 1) * 1000, (SecondsPerDay + 10) * 1000}

InitCooldown ==
    /\ quota = QuotaThreshold + QuotaHeadroom
    /\ markets = {"BTC", "ETH"}
    /\ available = [s \in Symbols |-> 0]
    /\ inOrder = [s \in Symbols |-> 0]
    /\ funds = 0
    /\ series = [s \in Symbols |-> FullSeries(<<>>)]
    /\ ticker24 = [s \in Symbols |-> NullTicker]
    /\ rejects = {}
    /\ server_time = ClockBase
    /\ candle_opens = {}
    /\ clock = IdleClock
    /\ ohlcv = IdleSeries
    /\ rsi_column = <<>>
    /\ workers = <<>>
    /\ available_symbols = sorted_unique(markets \cup {"EUR"})
    /\ lastOp = IdleOp
    /\ pc = "start"
    /\ it = IdleIteration
    /\ macd_hist = <<>>
    /\ verdict = NoVerdict

cooldownFrame == <<quota, exchangeVars, available_symbols, lastOp, it, ohlcv, rsi_column, workers, macd_hist, verdict>>

\* iteration_start_time = datetime.datetime.now()
IterationStart ==
    /\ pc = "start"
    /\ clock.iterations < MaxIterations
    /\ clock' = [clock EXCEPT !.iteration_start_time = clock.now]
    /\ pc' = "trading"
    /\ UNCHANGED cooldownFrame

\* analyse_existing_positions and open_new_positions take their time
TradingLogic ==
    /\ pc = "trading"
    /\ \E e \in IterationMillis : clock' = [clock EXCEPT !.now = @ + e]
    /\ pc' = "cooldown"
    /\ UNCHANGED cooldownFrame

\* it_t, rem_t and the conditional time.sleep(rem_t); the loop then starts over
Cooldown ==
    /\ pc = "cooldown"
    /\ \E it_t \in {timedelta_seconds(clock.now - clock.iteration_start_time)} :
         clock' = IF rem_t_of(it_t) > 0
                    THEN [clock EXCEPT !.now = @ + rem_t_of(it_t) * 1000,
                                       !.slept = rem_t_of(it_t),
                                       !.iterations = @ + 1]
                    ELSE [clock EXCEPT !.slept = 0, !.iterations = @ + 1]
    /\ pc' = "start"
    /\ UNCHANGED cooldownFrame

NextCooldown ==
    \/ IterationStart
    \/ TradingLogic
    \/ Cooldown

SpecCooldown == InitCooldown /\ [][NextCooldown]_vars

CooldownStep == pc = "cooldown" /\ pc' = "start"

\* whole seconds the trading logic of the iteration took
ElapsedSeconds == (clock.now - clock.iteration_start_time) \div 1000

\* C21: after an iteration that took e seconds the loop sleeps exactly
\* max(0, timeout - e) seconds: the next iteration starts no earlier than the
\* timeout after the start of this one, and when e is at least the timeout it
\* starts at once, without any sleep.
C21_SleepsRestOfInterval ==
    [][CooldownStep =>
         /\ clock'.slept = (IF timeout * 60 > ElapsedSeconds
                              THEN timeout * 60 - ElapsedSeconds ELSE 0)
         /\ clock'.now - clock.iteration_start_time >= timeout * 60 * 1000
         /\ (ElapsedSeconds >= timeout * 60 =>
               clock'.slept = 0 /\ clock'.now = clock.now)]_vars

\* the part of C21 the code keeps: the next iteration never starts before
\* the timeout has passed since the start of this one
C21_NeverEarly ==
    [][CooldownStep =>
         clock'.now - clock.iteration_start_time >= timeout * 60 * 1000]_vars

----------------------------------------------------------------------------
\* A restart of the bot builds a new BitvavoClient, whose __init__ takes a new
\* snapshot: self.available_symbols = self.get_available_symbols().  The
\* restarted client starts from the same remaining limit.
restarted(c) == [c EXCEPT !.available_symbols = get_available_symbols(c).val]

\* C22: the loop keeps no decision state between iterations: the orders of a
\* step are those a loop restarted against the same exchange state issues.
C22_OrdersOnlyFromExchangeState ==
    [][/\ ReviewStep =>
            it'.review.orders =
                analyse_existing_positions(restarted(Ctx(quota))).c.orders
       /\ OpenStep =>
            it'.open.orders = open_new_positions(restarted(Ctx(quota))).c.orders]_vars

----------------------------------------------------------------------------
(* OHLCVCandles (candles.py) and the indicators computed on it              *)
(* (indicators.py).  A series is built from six lists and an order; its     *)
(* memoized dataframe is modelled by its column names, None by <<>>.        *)

SeriesLists ==
    {"timestamps", "opening_positions", "high_positions", "low_positions",
     "close_positions", "volumes"}

\* both asserts of the constructor
lengths_agree_first_assert(a) ==
    /\ Len(a.timestamps) = Len(a.opening_positions)
    /\ Len(a.opening_positions) = Len(a.close_positions)
    /\ Len(a.close_positions) = Len(a.high_positions)

lengths_agree(a) ==
    /\ Len(a.timestamps) = Len(a.opening_positions)
    /\ Len(a.opening_positions) = Len(a.close_positions)
    /\ Len(a.close_positions) = Len(a.high_positions)
    /\ Len(a.timestamps) = Len(a.low_positions)
    /\ Len(a.low_positions) = Len(a.volumes)

SeqMax(seq) == CHOOSE x \in Range(seq) : \A y \in Range(seq) : y <= x

SeqMin(seq) == CHOOSE x \in Range(seq) : \A y \in Range(seq) : x <= y

\* self.timespan, in ms: 0.0 for an empty series
timespan_of(timestamps, time_resolution) ==
    IF Len(timestamps) > 0
    THEN SeqMax(timestamps) - SeqMin(timestamps) + TIME_RESOLUTIONS[time_resolution] * 1000
    ELSE 0

\* the attributes set before the asserts
candles_attributes(a) ==
    [timestamps |-> a.timestamps, opening_positions |-> a.opening_positions,
     high_positions |-> a.high_positions, low_positions |-> a.low_positions,
     close_positions |-> a.close_positions, volumes |-> a.volumes,
     time_resolution |-> a.time_resolution, order |-> a.order,
     num_candles |-> Len(a.timestamps),
     timespan |-> timespan_of(a.timestamps, a.time_resolution),
     dataframe_object |-> <<>>]

\* if self.order == "newer-to-older": every list is reversed
candles_reversed(o) ==
    [o EXCEPT !.timestamps = Reverse(@), !.opening_positions = Reverse(@),
              !.high_positions = Reverse(@), !.low_positions = Reverse(@),
              !.close_positions = Reverse(@), !.volumes = Reverse(@)]

NoCandles == candles_attributes([timestamps |-> <<>>, opening_positions |-> <<>>, high_positions |-> <<>>, low_positions |-> <<>>, close_positions |-> <<>>, volumes |-> <<>>, time_resolution |-> "1m", order |-> "older-to-newer"])

\* OHLCVCandles.__init__
new_candles(a) ==
    IF ~lengths_agree(a) THEN [err |-> "AssertionError", obj |-> NoCandles]
    ELSE IF a.order \notin {"older-to-newer", "newer-to-older"}
    THEN [err |-> ValueError, obj |-> NoCandles]
    ELSE [err |-> "none",
          obj |-> IF a.order = "newer-to-older"
                    THEN candles_reversed(candles_attributes(a))
                    ELSE candles_attributes(a)]

DataframeColumns == <<"timestamp", "open", "high", "low", "close", "volume">>

\* OHLCVCandles.as_dataframe: the frame is built once and kept
as_dataframe(o) ==
    IF o.dataframe_object = <<>> THEN [o EXCEPT !.dataframe_object = DataframeColumns]
    ELSE o

\* df[name] = ...: a new column is appended, an existing one overwritten
with_column(columns, name) ==
    IF name \in Range(columns) THEN columns ELSE Append(columns, name)

RECURSIVE with_columns(_, _)
with_columns(columns, names) ==
    IF names = <<>> THEN columns
    ELSE with_columns(with_column(columns, Head(names)), Tail(names))

\* df.drop([name], axis=1): a new frame without the column
without_columns(columns, names) == SelectSeq(columns, LAMBDA n : n \notin names)

\* the indicators write their columns into the frame as_dataframe returned,
\* which is the frame the series keeps; each returns [obj, df]
macd_indicator(o) ==
    [obj |-> [o EXCEPT !.dataframe_object =
                with_columns(as_dataframe(o).dataframe_object,
                             <<"ema_fast", "ema_slow", "macd_line", "macd_signal">>)],
     df |-> with_columns(as_dataframe(o).dataframe_object,
                         <<"ema_fast", "ema_slow", "macd_line", "macd_signal">>)]

rsi_indicator(o) ==
    [obj |-> [o EXCEPT !.dataframe_object =
                with_column(as_dataframe(o).dataframe_object, "rsi")],
     df |-> with_column(as_dataframe(o).dataframe_object, "rsi")]

MfiColumns ==
    <<"typical_price", "money_flow", "money_flow_index", "money_flow_positive",
      "money_flow_negative">>

mfi_indicator(o) ==
    [obj |-> [o EXCEPT !.dataframe_object =
                with_columns(as_dataframe(o).dataframe_object, MfiColumns)],
     df |-> without_columns(
                with_columns(as_dataframe(o).dataframe_object, MfiColumns),
                {"typical_price", "money_flow", "money_flow_negative",
                 "money_flow_positive"})]

----------------------------------------------------------------------------
(* SpecSeries: a series is constructed from lists of up to two bars, given  *)
(* in either order or with an unknown order, and the indicators are         *)
(* computed on it.                                                          *)

TimestampLists == {<<>>, <<60 * 1000>>, <<60 * 1000, 120 * 1000>>, <<120 * 1000, 60 * 1000>>}

PositionLists == {<<>>, <<1>>, <<1, 2>>, <<2, 1>>}

SeriesOrders == {"older-to-newer", "newer-to-older", "random"}

SeriesArgs ==
    [timestamps : TimestampLists, opening_positions : PositionLists,
     high_positions : PositionLists, low_positions : PositionLists,
     close_positions : PositionLists, volumes : PositionLists,
     time_resolution : {"1m"}, order : SeriesOrders]

InitSeries ==
    /\ ohlcv \in [args : SeriesArgs, err : {"pending"}, obj : {NoCandles}, df : {<<>>}]
    /\ quota = QuotaThreshold + QuotaHeadroom
    /\ markets = {"BTC", "ETH"}
    /\ available = [s \in Symbols |-> 0]
    /\ inOrder = [s \in Symbols |-> 0]
    /\ funds = 0
    /\ series = [s \in Symbols |-> FullSeries(<<>>)]
    /\ ticker24 = [s \in Symbols |-> NullTicker]
    /\ rejects = {}
    /\ server_time = ClockBase
    /\ candle_opens = {}
    /\ clock = IdleClock
    /\ rsi_column = <<>>
    /\ workers = <<>>
    /\ available_symbols = sorted_unique(markets \cup {"EUR"})
    /\ lastOp = IdleOp
    /\ pc = "series"
    /\ it = IdleIteration
    /\ macd_hist = <<>>
    /\ verdict = NoVerdict

seriesFrame == <<quota, exchangeVars, available_symbols, lastOp, pc, it, clock, rsi_column, workers, macd_hist, verdict>>

\* OHLCVCandles(symbol, timestamps, time_resolution, ...)
Construct ==
    /\ ohlcv.err = "pending"
    /\ \E r \in {new_candles(ohlcv.args)} :
         ohlcv' = [ohlcv EXCEPT !.err = r.err, !.obj = r.obj]
    /\ UNCHANGED seriesFrame

Built == ohlcv.err = "none"

AsDataframe ==
    /\ Built
    /\ ohlcv' = [ohlcv EXCEPT !.obj = as_dataframe(ohlcv.obj),
                              !.df = as_dataframe(ohlcv.obj).dataframe_object]
    /\ UNCHANGED seriesFrame

Indicate(r) == ohlcv' = [ohlcv EXCEPT !.obj = r.obj, !.df = r.df]

MacdIndicator == Built /\ Indicate(macd_indicator(ohlcv.obj)) /\ UNCHANGED seriesFrame

RsiIndicator == Built /\ Indicate(rsi_indicator(ohlcv.obj)) /\ UNCHANGED seriesFrame

MfiIndicator == Built /\ Indicate(mfi_indicator(ohlcv.obj)) /\ UNCHANGED seriesFrame

NextSeries ==
    \/ Construct
    \/ AsDataframe
    \/ MacdIndicator
    \/ RsiIndicator
    \/ MfiIndicator

SpecSeries == InitSeries /\ [][NextSeries]_vars

\* C23: a constructed series has six sequences of one length (a construction
\* with unequal lengths fails), also when it was given newest first, in which
\* case each sequence is the reverse of the one given; an empty series has
\* all lengths 0 and timespan 0.
C23_SeriesLengthsAgree ==
    /\ Built =>
         /\ \A l \in SeriesLists : Len(ohlcv.obj[l]) = ohlcv.obj.num_candles
         /\ ohlcv.args.order = "newer-to-older" =>
              \A l \in SeriesLists : ohlcv.obj[l] = Reverse(ohlcv.args[l])
         /\ ohlcv.args.order = "older-to-newer" =>
              \A l \in SeriesLists : ohlcv.obj[l] = ohlcv.args[l]
         /\ ohlcv.obj.num_candles = 0 => ohlcv.obj.timespan = 0
    /\ (\E k, l \in SeriesLists : Len(ohlcv.args[k]) # Len(ohlcv.args[l])) =>
         ohlcv.err \in {"pending", "AssertionError"}

C23_Witness ==
    /\ Built
    /\ ohlcv.args.order = "newer-to-older"
    /\ ohlcv.obj.num_candles = 2
    /\ ohlcv.obj.timestamps # ohlcv.args.timestamps
    /\ ohlcv.obj.volumes # ohlcv.obj.low_positions

\* C24: computing an indicator on a series leaves its six sequences alone
\* and the frame as_dataframe() returns afterwards has only the columns
\* timestamp, open, high, low, close and volume.
C24_IndicatorsLeaveSeriesUnchanged ==
    [][(MacdIndicator \/ RsiIndicator \/ MfiIndicator) =>
         /\ \A l \in SeriesLists : ohlcv'.obj[l] = ohlcv.obj[l]
         /\ as_dataframe(ohlcv'.obj).dataframe_object = DataframeColumns]_vars

\* the part of C24 the code keeps: the six sequences are untouched
C24_SequencesUntouched ==
    [][(MacdIndicator \/ RsiIndicator \/ MfiIndicator) =>
         \A l \in SeriesLists : ohlcv'.obj[l] = ohlcv.obj[l]]_vars

----------------------------------------------------------------------------
(* rsi_signal (signals.py).  The values of the 'rsi' column, which           *)
(* rsi_indicator computes from the close positions in floating point, are   *)
(* an input, in hundredths (the column is rounded to two decimals), the     *)
(* latest last.                                                             *)

\* the frame rsi_indicator returns for series o: its columns and the rsi column
rsi_frame(o, values) == [columns |-> rsi_indicator(o).df, rsi |-> values]

\* rsi < 30 and rsi > 70 on a DataFrame: a frame of booleans
frame_less_than(frame, x) ==
    [frame EXCEPT !.rsi = [i \in DOMAIN frame.rsi |-> frame.rsi[i] < x]]

frame_greater_than(frame, x) ==
    [frame EXCEPT !.rsi = [i \in DOMAIN frame.rsi |-> frame.rsi[i] > x]]

\* `if <DataFrame>`: pandas raises ValueError, the truth value of a DataFrame
\* is ambiguous
frame_truth(frame) == [err |-> "ValueError", val |-> FALSE]

rsi_signal(frame) ==
    IF frame_truth(frame_less_than(frame, 30 * 100)).err # "none"
    THEN frame_truth(frame_less_than(frame, 30 * 100)).err
    ELSE IF frame_truth(frame_less_than(frame, 30 * 100)).val THEN "BUY"
    ELSE IF frame_truth(frame_greater_than(frame, 70 * 100)).err # "none"
    THEN frame_truth(frame_greater_than(frame, 70 * 100)).err
    ELSE IF frame_truth(frame_greater_than(frame, 70 * 100)).val THEN "SELL"
    ELSE "HOLD"

RsiValues == {0, 30 * 100 - 1, 30 * 100, 30 * 100 + 1, 70 * 100 - 1, 70 * 100, 70 * 100 + 1, 100 * 100}

\* a series of two bars past the warm-up: both rows have an RSI
RsiColumns == [1..2 -> RsiValues]

RsiSeries ==
    new_candles([timestamps |-> <<60 * 1000, 120 * 1000>>, opening_positions |-> <<1, 2>>,
                 high_positions |-> <<2, 2>>, low_positions |-> <<1, 1>>,
                 close_positions |-> <<2, 1>>, volumes |-> <<1, 1>>,
                 time_resolution |-> "1m", order |-> "older-to-newer"])

InitRsi ==
    /\ rsi_column \in RsiColumns
    /\ ohlcv = [args |-> <<>>, err |-> RsiSeries.err, obj |-> RsiSeries.obj, df |-> <<>>]
    /\ verdict = PendingVerdict
    /\ macd_hist = <<>>
    /\ quota = QuotaThreshold + QuotaHeadroom
    /\ markets = {"BTC", "ETH"}
    /\ available = [s \in Symbols |-> 0]
    /\ inOrder = [s \in Symbols |-> 0]
    /\ funds = 0
    /\ series = [s \in Symbols |-> FullSeries(<<>>)]
    /\ ticker24 = [s \in Symbols |-> NullTicker]
    /\ rejects = {}
    /\ server_time = ClockBase
    /\ candle_opens = {}
    /\ clock = IdleClock
    /\ workers = <<>>
    /\ available_symbols = sorted_unique(markets \cup {"EUR"})
    /\ lastOp = IdleOp
    /\ pc = "rsi"
    /\ it = IdleIteration

\* rsi_signal(candles): rsi_indicator(candles), then the comparisons
EvalRsi ==
    /\ verdict = PendingVerdict
    /\ verdict' = [action |-> rsi_signal(rsi_frame(ohlcv.obj, rsi_column)), branch |-> "rsi"]
    /\ ohlcv' = [ohlcv EXCEPT !.obj = rsi_indicator(ohlcv.obj).obj,
                              !.df = rsi_indicator(ohlcv.obj).df]
    /\ UNCHANGED <<quota, exchangeVars, available_symbols, lastOp, pc, it, clock, rsi_column, workers, macd_hist>>

NextRsi == EvalRsi

SpecRsi == InitRsi /\ [][NextRsi]_vars

LatestRsi == rsi_column[Len(rsi_column)]

\* C25: past the warm-up the RSI evaluator returns BUY when the latest RSI is
\* below 30, SELL when it is above 70 and HOLD otherwise, 30 and 70 included.
C25_RsiVerdictByThresholds ==
    Evaluated =>
        verdict.action = (IF LatestRsi < 30 * 100 THEN "BUY"
                          ELSE IF LatestRsi > 70 * 100 THEN "SELL" ELSE "HOLD")

----------------------------------------------------------------------------
\* C26: every symbol the opening step buys is not owned when the step runs, so
\* each buy fills a new slot, and the number of distinct open positions after
\* the step does not exceed the target.
C26_BuysOnlyUnownedSymbols ==
    [][OpenStep =>
         /\ \A i \in DOMAIN it'.open.orders :
              it'.open.orders[i].symbol \notin Range(OwnedNow)
         /\ Cardinality({s \in Symbols : available'[s] > 0 \/ inOrder'[s] > 0})
              <= num_desired_positions]_vars

\* the part of C26 the code keeps: never more positions than the target
C26_PositionsWithinTarget ==
    [][OpenStep =>
         Cardinality({s \in Symbols : available'[s] > 0 \/ inOrder'[s] > 0})
              <= num_desired_positions]_vars

----------------------------------------------------------------------------
\* C27: with the same candle data in the review and in the scan, a symbol sold
\* in the review step is not bought in the opening step of the same
\* iteration, and all sells of an iteration precede all its buys: the review
\* only sells and runs before any buy of the iteration, the opening step
\* only buys.
C27_SoldNotBoughtBack ==
    [][/\ ReviewStep =>
            /\ ~it.open.done /\ it.open.orders = <<>>
            /\ \A i \in DOMAIN it'.review.orders : it'.review.orders[i].side = "sell"
       /\ OpenStep =>
            /\ it.review.done
            /\ \A i \in DOMAIN it'.open.orders :
                 /\ it'.open.orders[i].side = "buy"
                 /\ it'.open.orders[i].symbol \notin Range(SymbolsOf(it.review.orders))]_vars

C27_Witness ==
    /\ it.open.done
    /\ it.review.orders # <<>>
    /\ it.open.orders # <<>>

----------------------------------------------------------------------------
\* the EUR amounts of a sequence of orders, summed
RECURSIVE OrdersAmount(_)
OrdersAmount(orders) ==
    IF orders = <<>> THEN 0 ELSE Head(orders).amount + OrdersAmount(Tail(orders))

\* C28: in an opening step that issues buys, the amounts of all buys together
\* are at most the tradeable balance (97.5% of the free balance the step
\* starts from), and each amount is a whole number of EUR that is at least 5.
C28_BuysWithinTradeableFunds ==
    [][(OpenStep /\ it'.open.orders # <<>>) =>
         /\ OrdersAmount(it'.open.orders) * 1000 * UnitsPerEuro <= TradeableNow
         /\ it'.open.tradeable_funds = TradeableNow
         /\ \A i \in DOMAIN it'.open.orders :
              /\ it'.open.orders[i].side = "buy"
              /\ it'.open.orders[i].amount \in Nat
              /\ it'.open.orders[i].amount >= 5]_vars

C28_Witness ==
    /\ it.open.done
    /\ Len(it.open.orders) >= 2
    /\ it.open.orders[1].amount = 5
    /\ it.open.tradeable_funds > OrdersAmount(it.open.orders) * 1000 * UnitsPerEuro

----------------------------------------------------------------------------
\* the last operation was given an argument that one of its checks refuses
InvalidArgument ==
    \/ InvalidInput
    \/ /\ lastOp.name \in {"get_symbol_owned_amount", "get_symbol_24h_percentual_change",
                           "get_symbol_24h_volume"}
       /\ lastOp.args[1] \notin Range(available_symbols)
    \/ /\ lastOp.name = "get_symbols_prices"
       /\ ~(Range(lastOp.args[1]) \subseteq Range(available_symbols))

\* a step in which the gateway ran an operation
OperationStep ==
    \/ lastOp'.name # lastOp.name
    \/ lastOp'.q0 # lastOp.q0
    \/ lastOp'.ev # lastOp.ev

\* C30: the quota check comes before the validation of the input: with fewer
\* than 100 calls remaining, an operation given an invalid argument fails with
\* the quota error, not the invalid-value error, after the one read of the
\* limit, and leaves the snapshot of the available symbols as it was.
C30_QuotaCheckedBeforeInput ==
    [][(InvalidArgument' /\ lastOp'.q0 < QuotaThreshold) =>
         /\ lastOp'.err = QuotaError
         /\ lastOp'.ev = <<[k |-> "read", api |-> "getRemainingLimit", q |-> lastOp'.q0]>>
         /\ available_symbols' = available_symbols
         /\ OperationStep => quota' = quota]_vars

C30_Witness ==
    /\ lastOp.name = "get_symbol_owned_amount"
    /\ lastOp.args = <<UnknownSymbol>>
    /\ lastOp.q0 = QuotaThreshold - 1
    /\ lastOp.err = QuotaError
    /\ available_symbols = sorted_unique(markets \cup {"EUR"})

----------------------------------------------------------------------------
(* SpecWorkers: CoinbotController.update_main_view (frontend/controller.py) *)
(* starts three workers of the thread pool that use one BitvavoClient with  *)
(* no lock.  A worker's function is a fixed sequence of reads of the        *)
(* remaining limit and requests to the exchange; a step of a worker is one  *)
(* read (the guard of limit_api_calls) or one request.                      *)

Workers == {"overview", "symbols", "mpl"}

\* update_overview_view._get_data(client)
overview_get_data(c) ==
    get_total_gains(get_total_withdrawn(get_total_deposited(
        get_total_wallet_balance(get_available_funds(c).c).c).c).c)

\* the loop of update_symbols_view._get_data over the owned symbols
RECURSIVE symbols_data_loop(_, _)
symbols_data_loop(owned_symbols, c) ==
    IF owned_symbols = <<>> THEN Ok(c, NoVal)
    ELSE IF Head(owned_symbols) = "EUR" THEN symbols_data_loop(Tail(owned_symbols), c)
    ELSE symbols_data_loop(Tail(owned_symbols),
             get_symbol_24h_percentual_change(Head(owned_symbols),
                 get_symbol_owned_amount(Head(owned_symbols),
                     get_symbol_price(Head(owned_symbols), c).c).c).c)

\* update_symbols_view._get_data(client)
symbols_get_data(c) ==
    symbols_data_loop(get_owned_symbols(c).val, get_owned_symbols(c).c)

\* update_mpl_view._get_data(client), for the selection BTC, 1h, 1d
mpl_get_data(c) == get_candles("BTC", "1h", "1d", c)

\* the reads of the limit and the requests a function makes, in order, when no
\* guard refuses
StepsOf(r) == [i \in DOMAIN r.c.ev |-> [k |-> r.c.ev[i].k, api |-> r.c.ev[i].api]]

WorkerScript(w) ==
    CASE w = "overview" -> StepsOf(overview_get_data(Ctx(QuotaThreshold + QuotaHeadroom)))
      [] w = "symbols" -> StepsOf(symbols_get_data(Ctx(QuotaThreshold + QuotaHeadroom)))
      [] w = "mpl" -> StepsOf(mpl_get_data(Ctx(QuotaThreshold + QuotaHeadroom)))

\* self._threadpool.start(worker), three times
StartedWorkers == [w \in Workers |-> [script |-> WorkerScript(w), pos |-> 1, err |-> "none"]]

InitWorkers ==
    /\ quota \in InitialQuotas
    /\ markets = Symbols \ {NewMarket}
    /\ available = [s \in Symbols |-> IF s = "BTC" THEN 4 ELSE 0]
    /\ inOrder = [s \in Symbols |-> 0]
    /\ funds = 20 * UnitsPerEuro
    /\ series = [s \in Symbols |-> FullSeries(<<1, 2, 3, 4>>)]
    /\ ticker24 = [s \in Symbols |-> Ticker(5 * UnitsPerEuro, 300000)]
    /\ rejects = {}
    /\ server_time = ClockBase
    /\ candle_opens = {}
    /\ clock = IdleClock
    /\ ohlcv = IdleSeries
    /\ rsi_column = <<>>
    /\ available_symbols = sorted_unique(markets \cup {"EUR"})
    /\ lastOp = IdleOp
    /\ pc = "ui"
    /\ it = IdleIteration
    /\ macd_hist = <<>>
    /\ verdict = NoVerdict
    /\ workers = StartedWorkers

threadsFrame == <<exchangeVars, available_symbols, lastOp, pc, it, clock, ohlcv, rsi_column, macd_hist, verdict>>

Running(w) == workers[w].err = "none" /\ workers[w].pos <= Len(workers[w].script)

NextStep(w) == workers[w].script[workers[w].pos]

\* the wrapper of limit_api_calls reads the remaining limit: the worker goes on
\* to the body, or its function ends with the error
WorkerGuard(w) ==
    /\ Running(w)
    /\ NextStep(w).k = "read"
    /\ workers' = IF below_limit(quota)
                    THEN [workers EXCEPT ![w].err = QuotaError]
                    ELSE [workers EXCEPT ![w].pos = @ + 1]
    /\ UNCHANGED quota
    /\ UNCHANGED threadsFrame

\* the worker sends its next request
WorkerCall(w) ==
    /\ Running(w)
    /\ NextStep(w).k = "call"
    /\ quota' = Remote(Ctx(quota), NextStep(w).api).q
    /\ workers' = [workers EXCEPT ![w].pos = @ + 1]
    /\ UNCHANGED threadsFrame

\* the update timer fires after the workers of the last update have ended
UpdateMainView ==
    /\ \A w \in Workers : ~Running(w)
    /\ workers' = StartedWorkers
    /\ UNCHANGED quota
    /\ UNCHANGED threadsFrame

WindowRollsOver == QuotaReset /\ UNCHANGED workers

NextWorkers ==
    \/ \E w \in Workers : WorkerGuard(w)
    \/ \E w \in Workers : WorkerCall(w)
    \/ UpdateMainView
    \/ WindowRollsOver

SpecWorkers == InitWorkers /\ [][NextWorkers]_vars

\* C29: when several threads use the gateway without serialization, the guard
\* still ensures that no request is sent once fewer than 100 calls remain,
\* under every interleaving of the threads' reads of the limit and requests.
\* Here for the first request after each guard, the only one of a
\* single-call operation.
C29_NoCallBelowThresholdWhenInterleaved ==
    [][\A w \in Workers :
         (WorkerCall(w) /\ workers[w].script[workers[w].pos - 1].k = "read") =>
             quota >= QuotaThreshold]_vars

====
